---- MODULE Spec2Model ----
(***************************************************************************)
(* Multi-tier alignment of the acqdiv corpus parsers.                      *)
(*                                                                         *)
(* Python strings are modelled as sequences of one-character strings, so   *)
(* that tokenizing (str.split) is computed and not assumed.  Python None   *)
(* is the one-element sequence None, which no tokenizer can produce.       *)
(***************************************************************************)
EXTENDS Integers, Sequences, FiniteSets, TLC

(* ---- bounds of the model ---- *)
\* largest number of morpheme tokens in one CHAT morphology tier
MaxTokens == 3
\* largest number of words in an utterance
MaxUttWords == 2
\* largest number of morpheme tokens in one Toolbox tier
MaxToolboxTokens == 2
\* largest number of words in an utterance given to the Turkish cleaner
MaxOrthWords == 2
\* largest number of words in a morphology tier given to the Turkish cleaner
MaxMorphWords == 2
\* largest number of tokens in an utterance with untranscribed material
MaxRawTokens == 3
\* largest number of records in a session file
MaxRecords == 2
\* largest number of tokens in a tier with floating clitics
MaxCliticTokens == 3
\* largest number of words and replacements in a main line
MaxMainTokens == 2

VARIABLES
  corpus,          \* config['corpus']['corpus']: the corpus being parsed
  pc,              \* position of the record loop of the parser
  record,          \* Toolbox: the tiers of the record given to make_rec;
                   \* Turkish: the arguments given to the cleaner
  outcome,         \* Toolbox: how make_rec ended
  utterance,       \* Toolbox: the utterance dict returned by make_rec
  tiers,           \* Toolbox: the tokenized tiers inside get_morphemes
  main_morpheme,   \* value of reader.get_main_morpheme()
  actual_utt,      \* actual_utt after cross cleaning (CHATParser.py:107)
  target_utt,      \* target_utt after cross cleaning
  seg_tier,        \* seg_tier after cleaning (CHATParser.py:159)
  gloss_tier,      \* gloss_tier after cleaning (CHATParser.py:160)
  pos_tier,        \* pos_tier after cleaning (CHATParser.py:161)
  wlen,            \* number of words considered (CHATParser.py:170-183)
  wsegs,           \* segment words after the wm-misalignment check
  wglosses,        \* gloss words after the wm-misalignment check
  wposes,          \* POS words after the wm-misalignment check
  utterance_dict,  \* yielded utterance record
  words,           \* yielded word records
  morphemes,       \* yielded morpheme records, one list per morpheme word
  loop,            \* Turkish: the locals of the scan in progress
  mor_tier,        \* Turkish: mor_tier of cross_clean
  uid,             \* CHATReader.uid, an attribute of the class
  iterations,      \* the iter_records generator of every session file
  sentence_type,   \* sentence_type of next_utterance (CHATParser.py:85)
  toolbox_file,    \* Toolbox: the generator of ToolboxFile.__iter__
  session          \* postprocessor: the session of update_session

vars == <<corpus, pc, record, outcome, utterance, tiers, main_morpheme, actual_utt, target_utt, seg_tier, gloss_tier,
          pos_tier, wlen, wsegs, wglosses, wposes, utterance_dict, words,
          morphemes, loop, mor_tier, uid, iterations, sentence_type,
          toolbox_file, session>>

(* ---- Python values ---- *)
None == <<"None">>

\* the empty string
EmptyStr == <<>>

\* Python truthiness of a string: `x if x else None`
OrNone(x) == IF x = EmptyStr THEN None ELSE x

\* n * ['']
EmptyStrings(n) == [i \in 1..n |-> EmptyStr]

\* zip(a, b, ...) stops at the shortest argument
Min(a, b) == IF a < b THEN a ELSE b

\* str.split(sep) for a one-character separator: every occurrence of sep
\* separates two (possibly empty) parts, and '' gives ['']
SplitOn(s, sep) ==
  LET at == {i \in 1..Len(s) : s[i] = sep}
      n  == Cardinality(at)
      nth(k) == IF k = 0 THEN 0
                ELSE IF k = n + 1 THEN Len(s) + 1
                ELSE CHOOSE i \in at : Cardinality({j \in at : j < i}) = k - 1
  IN [k \in 1..(n+1) |-> SubSeq(s, nth(k-1) + 1, nth(k) - 1)]

\* sep.join(parts)
JoinWith(parts, sep) ==
  LET f[i \in 0..Len(parts)] ==
        IF i = 0 THEN EmptyStr
        ELSE IF i = 1 THEN parts[1]
        ELSE f[i-1] \o <<sep>> \o parts[i]
  IN f[Len(parts)]

(* ---- Python string functions used by the Toolbox parser ---- *)

\* str.split(): the maximal runs of non-blank characters
SplitWS(s) ==
  LET starts == {i \in 1..Len(s) : s[i] # " " /\ (i = 1 \/ s[i-1] = " ")}
      start(k) == CHOOSE i \in starts :
                    Cardinality({j \in starts : j < i}) = k - 1
      end(i) == CHOOSE e \in i..Len(s) :
                    /\ \A j \in i..e : s[j] # " "
                    /\ (e = Len(s) \/ s[e+1] = " ")
  IN [k \in 1..Cardinality(starts) |-> SubSeq(s, start(k), end(start(k)))]

\* re.sub('[...]', '', s): the characters of the class are deleted
RemoveChars(s, class) == SelectSeq(s, LAMBDA c : c \notin class)

\* s.startswith(prefix)
StartsWith(s, prefix) ==
  Len(s) >= Len(prefix) /\ SubSeq(s, 1, Len(prefix)) = prefix

\* s.replace(old, new), leftmost non-overlapping occurrences
ReplaceAll(s, old, new) ==
  LET n == Len(old)
      f[i \in 1..(Len(s)+1)] ==
        IF i > Len(s) THEN EmptyStr
        ELSE IF n > 0 /\ i + n - 1 <= Len(s) /\ SubSeq(s, i, i+n-1) = old
          THEN new \o f[i+n]
          ELSE <<s[i]>> \o f[i+1]
  IN f[1]

\* sub in s
Contains(s, sub) ==
  \E i \in 1..(Len(s) - Len(sub) + 1) : SubSeq(s, i, i + Len(sub) - 1) = sub

\* re.sub('xxx?|www', '???', s); with_stars adds the alternative \*\*\*
ReplaceUntranscribed(s, with_stars) ==
  LET at(i, w) == i + Len(w) - 1 <= Len(s) /\ SubSeq(s, i, i + Len(w) - 1) = w
      f[i \in 1..(Len(s)+1)] ==
        IF i > Len(s) THEN EmptyStr
        ELSE IF at(i, <<"x", "x", "x">>) THEN <<"?", "?", "?">> \o f[i+3]
        ELSE IF at(i, <<"x", "x">>) THEN <<"?", "?", "?">> \o f[i+2]
        ELSE IF at(i, <<"w", "w", "w">>)
                \/ (with_stars /\ at(i, <<"*", "*", "*">>))
          THEN <<"?", "?", "?">> \o f[i+3]
        ELSE <<s[i]>> \o f[i+1]
  IN f[1]

\* s.strip(c)
StripChar(s, c) ==
  LET keep == {i \in 1..Len(s) : s[i] # c}
  IN IF keep = {} THEN EmptyStr
     ELSE SubSeq(s, CHOOSE i \in keep : \A j \in keep : i <= j,
                    CHOOSE i \in keep : \A j \in keep : j <= i)
Strip(s) == StripChar(s, " ")

\* s.rstrip(' ')
StripRight(s) ==
  LET keep == {i \in 1..Len(s) : s[i] # " "}
  IN IF keep = {} THEN EmptyStr
     ELSE SubSeq(s, 1, CHOOSE i \in keep : \A j \in keep : j <= i)

StripHyphens(s) == StripChar(s, "-")

\* re.sub('\([^\)]+\)', '', s): parenthesized groups are deleted
RemoveParenGroups(s) ==
  LET close(i) == {k \in (i+2)..Len(s) :
                     s[k] = ")" /\ \A j \in (i+1)..(k-1) : s[j] # ")"}
      f[i \in 1..(Len(s)+1)] ==
        IF i > Len(s) THEN EmptyStr
        ELSE IF s[i] = "(" /\ close(i) # {}
          THEN f[(CHOOSE k \in close(i) : TRUE) + 1]
          ELSE <<s[i]>> \o f[i+1]
  IN f[1]

(* ---- toolbox.py: module functions ---- *)

\* longer_of(a, b)
longer_of(a, b) == IF Len(a) > Len(b) THEN a ELSE b

\* struct_eqv(x, y) called on two words (lists of strings): no element is a
\* list, so only the lengths are compared
struct_eqv_words(x, y) == Len(x) = Len(y)

\* struct_eqv(xs, ys) called on two tokenized tiers (lists of lists)
struct_eqvMut(xs, ys) ==
  \A i \in 1..Min(Len(xs), Len(ys)) : struct_eqv_words(xs[i], ys[i])
struct_eqv(xs, ys) ==
  IF Len(xs) = Len(ys)
    THEN \A i \in 1..Len(xs) : struct_eqv_words(xs[i], ys[i])
    ELSE FALSE

\* re.split(ToolboxFile._word_boundary, s): a run of whitespace is a word
\* boundary unless a hyphen or whitespace precedes or follows it
IsBoundaryStart(s, i) ==
  /\ s[i] = " "
  /\ (i = 1 \/ s[i-1] \notin {"-", " "})
RunEnd(s, i) ==
  CHOOSE e \in i..Len(s) :
    /\ \A j \in i..e : s[j] = " "
    /\ (e = Len(s) \/ s[e+1] # " ")
IsBoundaryMut(s, i) == IsBoundaryStart(s, i)
IsBoundary(s, i) ==
  /\ IsBoundaryStart(s, i)
  /\ LET e == RunEnd(s, i) IN e = Len(s) \/ s[e+1] # "-"
Boundaries(s) == {i \in 1..Len(s) : IsBoundary(s, i)}
SplitAtBoundaries(s, at) ==
  LET n  == Cardinality(at)
      nth(k) == CHOOSE i \in at : Cardinality({j \in at : j < i}) = k - 1
      from(k) == IF k = 1 THEN 1 ELSE RunEnd(s, nth(k-1)) + 1
      to(k) == IF k = n + 1 THEN Len(s) ELSE nth(k) - 1
  IN [k \in 1..(n+1) |-> SubSeq(s, from(k), to(k))]
SplitWordBoundary(s) == SplitAtBoundaries(s, Boundaries(s))

(* ---- toolbox.py: ToolboxFile ---- *)

\* a key the dict does not have
Absent == <<"Absent">>

Indonesian == "Indonesian"
Russian == "Russian"
Chintang == "Chintang"
ToolboxCorpora == {Russian, Indonesian, Chintang}

\* a value of config['corpus']['corpus'] that is none of the three
Other == "Other"
ToolboxFiles == ToolboxCorpora \cup {Other}

\* character classes of the cleaning regexes (ASCII members)
PunctuationRussian == {"'", "\"", ".", "!", ",", ":", "-", "?", "+", "/"}
Punctuation == {"'", "\"", ".", "!", ",", ":", "?", "+", "/"}

\* config['morphemes']['type'] and config['languages']
morpheme_type == <<"target">>
languages(code) == IF code = <<"l">> THEN <<"Lang">> ELSE Absent

\* [each token as a list of its own]: xs[i:i+1] for i in range(len(xs))
ListOfLists(xs) == [i \in 1..Len(xs) |-> <<xs[i]>>]

\* the words of a tier and the morphemes of each word: split at the word
\* boundaries, then word.split(); Chintang first removes the floating
\* clitic marker (toolbox.py:457-459, 495-499)
MorphemesOfWords(ws, floating) ==
  [i \in 1..Len(ws) |->
     SplitWS(IF floating THEN ReplaceAll(ws[i], <<" ", "-", " ">>, <<" ">>)
                         ELSE ws[i])]
WordsOfMorphemes(text, floating) ==
  MorphemesOfWords(SplitWordBoundary(text), floating)

\* the (POS, gloss) pair of one token of the Russian \mor tier, or nothing
\* (toolbox.py:417-437)
FirstVerbAdj(pos) ==
  LET hits == {i \in 1..Len(pos) :
                 \/ StartsWith(SubSeq(pos, i, Len(pos)), <<"V", "-">>)
                 \/ StartsWith(SubSeq(pos, i, Len(pos)), <<"A", "D", "J", "-">>)}
  IN IF hits = {} THEN 0 ELSE CHOOSE i \in hits : \A j \in hits : i <= j
RussianPosGloss(pos) ==
  IF ":" \notin {pos[i] : i \in 1..Len(pos)}
    THEN << <<pos, pos>> >>
  ELSE IF StartsWith(pos, <<"V">>) \/ StartsWith(pos, <<"A", "D", "J">>)
    THEN LET i == FirstVerbAdj(pos)
         IN IF i = 0 THEN <<>>
            ELSE IF pos[i] = "V"
              THEN << <<(<<"V">>), SubSeq(pos, i+2, Len(pos))>> >>
              ELSE << <<(<<"A", "D", "J">>), SubSeq(pos, i+4, Len(pos))>> >>
  ELSE IF pos[1] \in {"(", "V", "|", "A", "D", "J", ")"}
          \/ \A k \in 2..Len(pos) : pos[k] # ":"
    THEN <<>>
    ELSE LET k == CHOOSE c \in 2..Len(pos) :
                    pos[c] = ":" /\ \A j \in 2..(c-1) : pos[j] # ":"
         IN << <<SubSeq(pos, 1, k-1), SubSeq(pos, k+1, Len(pos))>> >>

RussianPosGlosses(tokens) ==
  LET f[i \in 0..Len(tokens)] ==
        IF i = 0 THEN <<>> ELSE f[i-1] \o RussianPosGloss(tokens[i])
  IN f[Len(tokens)]

\* the tokenized tiers of a record: everything get_morphemes does before
\* the alignment (toolbox.py:379-549)
NoTiers == [raised |-> TRUE, morphemes |-> <<>>, glosses |-> <<>>,
            poses |-> <<>>, langs |-> <<>>, warnings |-> <<>>]

\* Russian (toolbox.py:387-445)
RussianMorphemes(morpheme) ==
  IF morpheme = Absent THEN <<>>
  ELSE ListOfLists(SplitWS(ReplaceUntranscribed(
         RemoveChars(morpheme, PunctuationRussian), FALSE)))
RussianPosCleaned(pos_raw) ==
  IF pos_raw \in {Absent, None} THEN <<>>
  ELSE SplitWS(ReplaceAll(ReplaceAll(ReplaceAll(pos_raw,
         <<"P", "U", "N", "C", "T">>, EmptyStr),
         <<"A", "N", "N", "O", "T">>, EmptyStr),
         <<"<", "N", "A", ":", " ", "l", "t", ";", ">", " ">>, EmptyStr))
RussianTiers(utt, pos_cleaned, pg) ==
  [raised    |-> FALSE,
   morphemes |-> RussianMorphemes(utt.morpheme),
   glosses   |-> [i \in 1..Len(pg) |-> <<pg[i][2]>>],
   poses     |-> [i \in 1..Len(pg) |-> <<pg[i][1]>>],
   langs     |-> [i \in 1..Len(pos_cleaned) |->
                    <<IF Contains(pos_cleaned[i],
                                  <<"F", "O", "R", "E", "I", "G", "N">>)
                        THEN None ELSE <<"Russian">> >>],
   warnings  |-> IF utt.pos_raw = Absent THEN << <<"not glossed">> >>
                 ELSE <<>>]
RussianPosTiers(utt, pos_cleaned) ==
  RussianTiers(utt, pos_cleaned, RussianPosGlosses(pos_cleaned))
TokenizeRussian(utt) ==
  IF utt.morpheme = None THEN NoTiers
  ELSE RussianPosTiers(utt, RussianPosCleaned(utt.pos_raw))

\* Indonesian (toolbox.py:448-473)
IndonesianTier(raw) ==
  IF raw = Absent THEN <<>>
  ELSE WordsOfMorphemes(ReplaceUntranscribed(
         RemoveChars(raw, Punctuation), FALSE), FALSE)
IndonesianLangs(lo) ==
  [i \in 1..Len(lo) |-> [j \in 1..Len(lo[i]) |-> <<"Indonesian">>]]
IndonesianTiers(utt, ms, gs) ==
  [raised    |-> FALSE,
   morphemes |-> ms,
   glosses   |-> gs,
   poses     |-> <<>>,
   langs     |-> IndonesianLangs(longer_of(ms, gs)),
   warnings  |-> IF utt.morpheme = Absent /\ utt.gloss_raw = Absent
                   THEN << <<"not glossed">> >> ELSE <<>>]
TokenizeIndonesian(utt) ==
  IF utt.morpheme = None \/ utt.gloss_raw = None THEN NoTiers
  ELSE IndonesianTiers(utt, IndonesianTier(utt.morpheme),
                       IndonesianTier(utt.gloss_raw))

\* the language of each token of one word of the \lg tier; a code that is
\* not configured makes the whole word ['Chintang'] (toolbox.py:524-530)
LanguageNames(codes) ==
  [j \in 1..Len(codes) |-> languages(StripHyphens(codes[j]))]
KnownOrChintang(names) ==
  IF \E j \in 1..Len(names) : names[j] = Absent
    THEN << <<"Chintang">> >> ELSE names
LangsOfWord(word) ==
  KnownOrChintang(LanguageNames(
    SplitWS(ReplaceAll(word, <<" ", "-", " ">>, <<" ">>))))
LangsOfWords(lang_words) ==
  [i \in 1..Len(lang_words) |-> LangsOfWord(lang_words[i])]

\* langs cut to the shape of glosses, unless that raises IndexError
\* (toolbox.py:541-546)
AlignLangs(langs, glosses) ==
  IF /\ Len(langs) >= Len(glosses)
     /\ \A i \in 1..Len(glosses) : Len(langs[i]) >= Len(glosses[i])
    THEN [i \in 1..Len(glosses) |->
            [j \in 1..Len(glosses[i]) |-> langs[i][j]]]
    ELSE langs

\* Chintang (toolbox.py:477-546)
ChintangMorphemes(morpheme) ==
  IF morpheme = Absent THEN <<>>
  ELSE WordsOfMorphemes(ReplaceAll(RemoveChars(morpheme, Punctuation),
                                   <<"*", "*", "*">>, <<"?", "?", "?">>), TRUE)
ChintangTier(raw) ==
  IF raw = Absent THEN <<>> ELSE WordsOfMorphemes(raw, TRUE)
ChintangWordBoundaries(gloss_raw) ==
  IF gloss_raw = Absent THEN <<>> ELSE SplitWordBoundary(gloss_raw)
ChintangLangs(utt) ==
  IF utt.morpheme_lang = Absent
    THEN [i \in 1..Len(ChintangWordBoundaries(utt.gloss_raw)) |->
            << <<"Chintang">> >>]
    ELSE LangsOfWords(SplitWordBoundary(utt.morpheme_lang))
ChintangTiers(utt, gs) ==
  [raised    |-> FALSE,
   morphemes |-> ChintangMorphemes(utt.morpheme),
   glosses   |-> gs,
   poses     |-> ChintangTier(utt.pos_raw),
   langs     |-> AlignLangs(ChintangLangs(utt), gs),
   warnings  |->
     (IF utt.morpheme = Absent THEN << <<"no morpheme tier">> >> ELSE <<>>)
     \o (IF utt.gloss_raw = Absent THEN << <<"not glossed">> >> ELSE <<>>)
     \o (IF utt.pos_raw = Absent THEN << <<"pos missing">> >> ELSE <<>>)
     \o (IF utt.morpheme_lang = Absent
           THEN << <<"language information missing">> >> ELSE <<>>)]
TokenizeChintang(utt) ==
  IF None \in {utt.morpheme, utt.gloss_raw, utt.pos_raw, utt.morpheme_lang}
    THEN NoTiers
  ELSE ChintangTiers(utt, ChintangTier(utt.gloss_raw))

Tokenize(corpus_name, utt) ==
  IF corpus_name = Russian THEN TokenizeRussian(utt)
  ELSE IF corpus_name = Indonesian THEN TokenizeIndonesian(utt)
  ELSE IF corpus_name = Chintang THEN TokenizeChintang(utt)
  ELSE NoTiers  \* TypeError("Corpus format is not supported by this parser.")

\* a tier with the nested structure of the glosses is kept, any other tier
\* becomes one empty list per gloss word (toolbox.py:552-562)
SubstituteTierMut(t, glosses) ==
  [i \in 1..Len(glosses) |-> IF i <= Len(t) THEN t[i] ELSE <<>>]
SubstituteTier(t, glosses) ==
  IF struct_eqv(t, glosses) THEN t ELSE [i \in 1..Len(glosses) |-> <<>>]

\* zip_longest(a, b, c, d, fillvalue=None) made into the morpheme dicts of
\* one word (toolbox.py:568-581)
Max(a, b) == IF a > b THEN a ELSE b
Fill(xs, j) == IF j <= Len(xs) THEN xs[j] ELSE None
MorphemesOfWord(m, g, p, l, warnings) ==
  [j \in 1..Max(Max(Len(m), Len(g)), Max(Len(p), Len(l))) |->
     [morpheme          |-> Fill(m, j),
      gloss_raw         |-> Fill(g, j),
      pos_raw           |-> Fill(p, j),
      morpheme_language |-> Fill(l, j),
      type              |-> morpheme_type,
      warning           |-> IF Len(warnings) = 0 THEN None
                            ELSE JoinWith(warnings, " ")]]

\* the alignment of the tokenized tiers (toolbox.py:552-583)
AlignTiers(tok) ==
  LET m == SubstituteTier(tok.morphemes, tok.glosses)
      g == SubstituteTier(tok.glosses, tok.glosses)
      p == SubstituteTier(tok.poses, tok.glosses)
      l == SubstituteTier(tok.langs, tok.glosses)
      n == Min(Min(Len(m), Len(g)), Min(Len(p), Len(l)))
  IN [i \in 1..n |-> MorphemesOfWord(m[i], g[i], p[i], l[i], tok.warnings)]

\* ToolboxFile.get_morphemes (toolbox.py:370-583)
AlignedMorphemes(tok) ==
  [raised |-> tok.raised,
   tiers  |-> tok,
   result |-> IF tok.raised THEN <<>> ELSE AlignTiers(tok)]
ToolboxFile_get_morphemes(corpus_name, utt) ==
  AlignedMorphemes(Tokenize(corpus_name, utt))

\* ToolboxFile.get_words (toolbox.py:198-235)
WordDict(corpus_name, w) ==
  IF corpus_name = Indonesian
    THEN IF "(" \in {w[k] : k \in 1..Len(w)}
      THEN [word_target   |-> RemoveChars(w, {"(", ")"}),
            word          |-> RemoveParenGroups(w),
            word_actual   |-> RemoveParenGroups(w),
            word_language |-> Absent]
      ELSE [word_target   |-> ReplaceUntranscribed(w, FALSE),
            word          |-> ReplaceAll(ReplaceAll(w,
                                <<"x", "x", "x">>, <<"?", "?", "?">>),
                                <<"x", "x">>, <<"?", "?", "?">>),
            word_actual   |-> ReplaceAll(ReplaceAll(w,
                                <<"x", "x", "x">>, <<"?", "?", "?">>),
                                <<"x", "x">>, <<"?", "?", "?">>),
            word_language |-> Absent]
    ELSE [word_target   |-> Absent,
          word          |-> ReplaceUntranscribed(w, TRUE),
          word_actual   |-> IF corpus_name \in {Chintang, Russian}
                              THEN w ELSE Absent,
          word_language |-> Absent]
WordDicts(corpus_name, ws) ==
  [i \in 1..Len(ws) |-> WordDict(corpus_name, ws[i])]
ToolboxFile_get_words(corpus_name, text) ==
  WordDicts(corpus_name, SplitWS(text))

\* ToolboxFile.clean_utterance over the characters of the model: the
\* untranscribed markers, the punctuation and the surrounding blanks
\* (toolbox.py:326-368)
KeepAt(u, Keep(_, _)) ==
  LET f[i \in 0..Len(u)] ==
        IF i = 0 THEN EmptyStr
        ELSE f[i-1] \o (IF Keep(u, i) THEN <<u[i]>> ELSE EmptyStr)
  IN f[Len(u)]
\* '?' between whitespace or between whitespace and the end
LoneQuestion(u, i) ==
  /\ u[i] = "?"
  /\ i > 1 /\ u[i-1] = " "
  /\ (i = Len(u) \/ u[i+1] = " ")
KeptRussian(u, i) ==
  /\ u[i] \notin {"'", "\"", ".", "!", ",", ":", "+", "/"}
  /\ ~LoneQuestion(u, i)
KeptIndonesian(u, i) ==
  /\ u[i] \notin {"'", "\"", ".", "!", ",", ";", ":", "+", "/", "<", ">"}
  /\ ~(u[i] = "?" /\ i = Len(u))
\* re.sub('\s+', ' ', u)
FirstOfBlanks(u, i) == u[i] # " " \/ i = 1 \/ u[i-1] # " "
\* re.sub('\[\s*=?.*?\]', '', u): bracketed groups are deleted
RemoveBracketGroups(u) ==
  LET close(i) == {k \in (i+1)..Len(u) :
                     u[k] = "]" /\ \A j \in (i+1)..(k-1) : u[j] # "]"}
      f[i \in 1..(Len(u)+1)] ==
        IF i > Len(u) THEN EmptyStr
        ELSE IF u[i] = "[" /\ close(i) # {}
          THEN f[(CHOOSE k \in close(i) : TRUE) + 1]
          ELSE <<u[i]>> \o f[i+1]
  IN f[1]
CollapseBlanks(u) == KeepAt(u, FirstOfBlanks)
CleanPunctuation(corpus_name, u) ==
  IF corpus_name = Russian
    THEN Strip(RemoveChars(CollapseBlanks(RemoveBracketGroups(
           KeepAt(u, KeptRussian))), {"="}))
  ELSE IF corpus_name = Indonesian
    THEN ReplaceAll(Strip(KeepAt(u, KeptIndonesian)),
                    <<"[", "?", "]">>, EmptyStr)
  ELSE u
clean_utterance(corpus_name, text) ==
  IF text = None THEN None
  ELSE CleanPunctuation(corpus_name, ReplaceUntranscribed(text, TRUE))

\* the character U+0964, which ends a Nepali sentence
Danda == "danda"

\* the last character of a string, '' for the empty string
LastChar(s) == IF s = EmptyStr THEN "" ELSE s[Len(s)]

\* ToolboxFile.get_sentence_type; no key of the utterance is 'eng'
\* (toolbox.py:238-296)
RussianSentenceType(utterance_raw) ==
  IF LastChar(utterance_raw) = "." THEN <<"default">>
  ELSE IF LastChar(utterance_raw) = "?" THEN <<"question">>
  ELSE IF LastChar(utterance_raw) = "!" THEN <<"imperative">>
  ELSE None
IndonesianSentenceType(utterance_raw) ==
  IF Contains(utterance_raw, <<".">>) THEN <<"default">>
  ELSE IF LastChar(StripRight(utterance_raw)) = "?" THEN <<"question">>
  ELSE IF Contains(utterance_raw, <<"!">>) THEN <<"imperative">>
  ELSE None
ChintangSentenceType(nepali) ==
  IF nepali \in {Absent, None} THEN None
  ELSE IF LastChar(nepali) = Danda THEN <<"default">>
  ELSE IF LastChar(nepali) = "?" THEN <<"question">>
  ELSE IF LastChar(nepali) = "!" THEN <<"exclamation">>
  ELSE None
ToolboxFile_get_sentence_type(corpus_name, utterance_raw, nepali) ==
  IF corpus_name = Russian THEN RussianSentenceType(utterance_raw)
  ELSE IF corpus_name = Indonesian THEN IndonesianSentenceType(utterance_raw)
  ELSE IF corpus_name = Chintang THEN ChintangSentenceType(nepali)
  ELSE None

\* ToolboxFile.get_warnings: insecure transcriptions (toolbox.py:299-323)
HasIntendedForm(u) ==
  \E i \in 1..Len(u) : \E k \in (i+5)..Len(u) :
     /\ SubSeq(u, i, i+3) = <<"[", "=", "?", " ">>
     /\ u[k] = "]"
     /\ \A j \in (i+3)..(k-1) : u[j] # "]"
get_warnings(corpus_name, u) ==
  IF corpus_name = Russian /\ HasIntendedForm(u)
    THEN <<"transcription insecure (intended form might have been ...)">>
  ELSE IF corpus_name = Indonesian /\ Contains(u, <<"[", "?", "]">>)
    THEN <<"transcription insecure">>
  ELSE None

\* the keys of a record in the order of its tiers
RecordKeys == <<"speaker_label", "utterance_raw", "morpheme", "gloss_raw",
                "pos_raw", "morpheme_lang", "childdirected", "nepali">>

\* the configured tiers of a record in the order of its lines: the tiers
\* that are there, in the order of the keys; rec["repeated"] names a tier
\* that has a second line
TierLines(rec) ==
  LET f[i \in 0..Len(RecordKeys)] ==
        IF i = 0 THEN <<>>
        ELSE f[i-1] \o (IF rec[RecordKeys[i]] = Absent THEN <<>>
                        ELSE IF rec["repeated"] = <<RecordKeys[i]>>
                          THEN <<RecordKeys[i], RecordKeys[i]>>
                          ELSE <<RecordKeys[i]>>)
  IN f[Len(RecordKeys)]

\* warnings of make_rec: the configured tiers found without content, in the
\* order of the tiers (toolbox.py:113-134)
EmptyTiers(rec, keys) ==
  LET empty == SelectSeq(keys, LAMBDA k : rec[k] = None)
  IN [i \in 1..Len(empty) |-> <<empty[i]>>]

\* Chintang: the directedness of the utterance (toolbox.py:154-163)
Directed == <<"d", "i", "r", "e", "c", "t", "e", "d">>
Child == <<"c", "h", "i", "l", "d">>
CleanDirectedness(tos_raw) ==
  IF tos_raw = Absent THEN Absent
  ELSE IF Contains(tos_raw, Directed)
    THEN IF Contains(tos_raw, Child) THEN <<"True">> ELSE <<"False">>
    ELSE Absent

\* words[i]['word_language'] = morphemes[i][0]['morpheme_language'] until
\* the first IndexError (toolbox.py:184-188)
SetWordLanguages(ws, ms) ==
  LET ok(i) == i <= Len(ms) /\ Len(ms[i]) > 0
  IN [i \in 1..Len(ws) |->
        IF \A k \in 1..i : ok(k)
          THEN [ws[i] EXCEPT !.word_language = ms[i][1].morpheme_language]
          ELSE ws[i]]

\* the empty dict {}
EmptyWord == [word_target |-> Absent, word |-> Absent, word_actual |-> Absent,
              word_language |-> Absent]

PadWordsMut(ws, ms) ==
  IF Len(ms) - Len(ws) > 0
    THEN [i \in 1..(Len(ms) - Len(ws)) |-> EmptyWord] \o ws
    ELSE ws

\* fix words less than morphemes misalignments (toolbox.py:190-193)
PadWords(ws, ms) ==
  IF Len(ms) - Len(ws) > 0
    THEN ws \o [i \in 1..(Len(ms) - Len(ws)) |-> EmptyWord]
    ELSE ws

NoUtterance == [r \in {"speaker_label", "utterance_raw", "utterance",
                       "morpheme", "gloss_raw", "pos_raw", "morpheme_lang",
                       "childdirected", "nepali", "sentence_type",
                       "warning"} |-> Absent]

Filtered == [outcome |-> "filtered", utterance |-> NoUtterance,
             words |-> <<>>, morphemes |-> <<>>, tiers |-> NoTiers]
Raised == [outcome |-> "raised", utterance |-> NoUtterance,
           words |-> <<>>, morphemes |-> <<>>, tiers |-> NoTiers]

\* the warnings of the record (toolbox.py:133-134 and 130-131)
RecordWarnings(corpus_name, rec, utterance_raw) ==
  EmptyTiers(rec, TierLines(rec))
  \o (IF utterance_raw # None
         /\ get_warnings(corpus_name, utterance_raw) # None
        THEN <<get_warnings(corpus_name, utterance_raw)>>
        ELSE <<>>)

\* the utterance dict before the words and morphemes are made
\* (toolbox.py:108-174)
UtteranceDict(corpus_name, rec, utterance_raw, clean, warnings) ==
  [k \in DOMAIN NoUtterance |->
     IF k = "utterance_raw" THEN utterance_raw
     ELSE IF k = "utterance" THEN clean
     ELSE IF k = "sentence_type"
       THEN IF utterance_raw = None THEN None
            ELSE ToolboxFile_get_sentence_type(corpus_name, utterance_raw,
                                               rec["nepali"])
     ELSE IF k = "nepali" /\ corpus_name = Chintang THEN Absent
     ELSE IF k = "childdirected" /\ corpus_name = Chintang
       THEN CleanDirectedness(rec[k])
     ELSE IF k = "warning"
       THEN IF Len(warnings) > 0
              THEN <<"Empty value in the input for: ">>
                   \o JoinWith(warnings, ", ")
              ELSE Absent
     ELSE rec[k]]
MakeUtterance(corpus_name, rec, utterance_raw) ==
  UtteranceDict(corpus_name, rec, utterance_raw,
                clean_utterance(corpus_name, utterance_raw),
                RecordWarnings(corpus_name, rec, utterance_raw))

\* Russian: gloss_raw becomes the glosses of the morphemes
\* (toolbox.py:180-182)
GlossesOfMorphemes(ms) ==
  LET flat[i \in 0..Len(ms)] ==
        IF i = 0 THEN <<>>
        ELSE flat[i-1] \o [j \in 1..Len(ms[i]) |-> ms[i][j].gloss_raw]
  IN flat[Len(ms)]
FinishUtterance(corpus_name, utt, ms) ==
  [k \in DOMAIN utt |->
     IF k = "morpheme_lang" /\ utt["utterance"] # None
        /\ corpus_name = Chintang
       THEN Absent
     ELSE IF k = "gloss_raw" /\ corpus_name = Russian
       THEN JoinWith(GlossesOfMorphemes(ms), " ")
     ELSE utt[k]]

\* the words and morphemes of the utterance (toolbox.py:176-195)
Assemble(corpus_name, utt, ws, gm) ==
  IF gm.raised THEN Raised
  ELSE [outcome   |-> "returned",
        utterance |-> FinishUtterance(corpus_name, utt, gm.result),
        words     |-> PadWords(SetWordLanguages(ws, gm.result), gm.result),
        morphemes |-> gm.result,
        tiers     |-> gm.tiers]
MakeWordsMorphemes(corpus_name, utt) ==
  Assemble(corpus_name, utt,
           IF utt["utterance"] = None THEN <<>>
           ELSE ToolboxFile_get_words(corpus_name, utt["utterance"]),
           IF utt["utterance"] = None
             THEN [raised |-> FALSE, tiers |-> NoTiers, result |-> <<>>]
             ELSE ToolboxFile_get_morphemes(corpus_name, utt))

\* ToolboxFile.make_rec (toolbox.py:99-195)
make_rec(corpus_name, rec) ==
  IF \E k \in DOMAIN rec :
        rec[k] \notin {Absent, None} /\ StartsWith(rec[k], <<"@">>)
    THEN Filtered
  ELSE IF corpus_name = Indonesian
          /\ rec["speaker_label"] = <<"@", "P", "A", "R">>
    THEN Filtered
  ELSE IF corpus_name = Chintang /\ rec["childdirected"] = None
    THEN Raised
  ELSE MakeWordsMorphemes(corpus_name,
         MakeUtterance(corpus_name, rec,
                       IF rec["utterance_raw"] = Absent THEN None
                       ELSE rec["utterance_raw"]))

\* the generator of ToolboxFile.__iter__ before its first next(): no file is
\* open (records: the records of the file, each from one '\ref' to the
\* next; pos: the record that starts at pos; yielded: the records given to
\* the consumer so far)
NoFile == [state |-> "created", records |-> <<>>, pos |-> 0,
           yielded |-> <<>>]

\* the generator runs make_rec on the record that starts at pos and yields
\* what it returns; an exception of make_rec ends the generator
\* (toolbox.py:91 and 96)
YieldMadeRecord(it, made) ==
  IF made.outcome = "raised"
    THEN [it EXCEPT !.state = "raised"]
    ELSE [it EXCEPT !.state = "yielded", !.yielded = Append(@, it.pos)]

\* first next() on the generator of a file: without a record marker
\* ma.start() raises AttributeError, else the first record starts at the
\* first marker (toolbox.py:84-89)
StartToolboxFile(recs) ==
  IF Len(recs) = 0
    THEN [NoFile EXCEPT !.state = "raised"]
    ELSE [NoFile EXCEPT !.records = recs, !.pos = 1]

\* the generator resumed after a yield: the next record starts at the marker
\* the last one ended at; behind the last record the generator ends
\* (toolbox.py:90-96)
ResumeToolboxFile(it) ==
  IF it.pos < Len(it.records)
    THEN [it EXCEPT !.pos = @ + 1]
    ELSE [it EXCEPT !.state = "exhausted"]

(* ---- IndonesianReader ---- *)

\* IndonesianReader.get_speaker_label: rec.get('sp', '')
get_speaker_label(rec) ==
  IF rec["speaker_label"] = Absent THEN EmptyStr ELSE rec["speaker_label"]

\* IndonesianReader.is_record; toolbox_record is what ToolboxReader.is_record
\* says of the record
is_recordMut(rec, toolbox_record) ==
  IF ~toolbox_record THEN FALSE
  ELSE IF get_speaker_label(rec) = <<"P", "A", "R">> THEN FALSE
  ELSE TRUE
is_record(rec, toolbox_record) ==
  IF ~toolbox_record THEN FALSE
  ELSE IF get_speaker_label(rec) = <<"@", "P", "A", "R">> THEN FALSE
  ELSE TRUE

(* ---- CHATReader ---- *)

\* CHATReader.get_words: utterance.split(' ')
get_words(text) == SplitOn(text, " ")

get_utterance_words(text) == get_words(text)
get_seg_words(tier) == get_words(tier)
get_gloss_words(tier) == get_words(tier)
get_pos_words(tier) == get_words(tier)

\* CreeReader.get_morphemes: word.split('~')
get_morphemes(word) == SplitOn(word, "~")

\* the corpus whose reader is InuktitutReader; the other CHAT corpus of the
\* model, Cree, has CreeReader
Inuktitut == "Inuktitut"

\* morpheme_regex.search(morpheme) for r'(.*)\|(.*?)\^(.*)': the greedy first
\* group ends at the last '|' that has a '^' behind it, the lazy second group
\* at the first '^' behind that '|'; without such a pair there is no match
NoMatch == <<>>
MorphemeMatch(morpheme) ==
  LET bars == {p \in 1..Len(morpheme) :
                 /\ morpheme[p] = "|"
                 /\ \E q \in (p+1)..Len(morpheme) : morpheme[q] = "^"}
  IN IF bars = {} THEN NoMatch
     ELSE LET p == CHOOSE b \in bars : \A c \in bars : c <= b
              q == CHOOSE h \in (p+1)..Len(morpheme) :
                     /\ morpheme[h] = "^"
                     /\ \A c \in (p+1)..(h-1) : morpheme[c] # "^"
          IN <<SubSeq(morpheme, 1, p-1), SubSeq(morpheme, p+1, q-1),
               SubSeq(morpheme, q+1, Len(morpheme))>>

\* InuktitutReader.iter_morphemes: the (pos, seg, gloss) of every '+'-part
iter_morphemes(word) ==
  LET parts == SplitOn(word, "+")
  IN [k \in 1..Len(parts) |-> MorphemeMatch(parts[k])]

\* match.group(1) on a failed match raises AttributeError
IterMorphemesRaises(word) ==
  \E k \in 1..Len(iter_morphemes(word)) : iter_morphemes(word)[k] = NoMatch

\* [unit for ... in cls.iter_morphemes(word)], n the position in the tuple
InuktitutUnits(word, n) ==
  [k \in 1..Len(iter_morphemes(word)) |->
     IF iter_morphemes(word)[k] = NoMatch THEN NoMatch
     ELSE iter_morphemes(word)[k][n]]

\* reader.get_segments, get_glosses, get_poses of the reader of the corpus
get_segments(seg_word) ==
  IF corpus = Inuktitut THEN InuktitutUnits(seg_word, 2)
  ELSE get_morphemes(seg_word)
get_glosses(gloss_word) ==
  IF corpus = Inuktitut THEN InuktitutUnits(gloss_word, 3)
  ELSE get_morphemes(gloss_word)
get_poses(pos_word) ==
  IF corpus = Inuktitut THEN InuktitutUnits(pos_word, 1)
  ELSE get_morphemes(pos_word)

\* reader.get_standard_form()
get_standard_form == "actual"

\* reader.get_word_language(word) and reader.get_morpheme_language(...)
get_word_language(word) == EmptyStr
get_morpheme_language(seg, gloss, pos) == EmptyStr

\* the Cleaner capability at its interface: word and morpheme cleaning keeps
\* the shape of what it cleans, and the alphabet of the model has no
\* character that a cleaner removes
clean_word(word) == word
clean_seg_word(seg_word) == seg_word
clean_gloss_word(gloss_word) == gloss_word
clean_pos_word(pos_word) == pos_word
clean_segment(seg) == seg
clean_gloss(gloss) == gloss
clean_pos(pos) == pos

(* ---- CHATParser.next_utterance ---- *)

\* the words of the utterance (CHATParser.py:111-136)
CollectWords(actual, target) ==
  LET actual_words == get_utterance_words(actual)
      target_words == get_utterance_words(target)
  IN [i \in 1..Min(Len(actual_words), Len(target_words)) |->
        LET word == IF get_standard_form = "actual"
                      THEN actual_words[i] ELSE target_words[i]
        IN [word_language |-> OrNone(get_word_language(word)),
            word          |-> clean_word(word),
            word_actual   |-> clean_word(actual_words[i]),
            word_target   |-> clean_word(target_words[i]),
            warning       |-> None]]

\* number of units to be considered, from the main morphology tier and the
\* existence of this tier (CHATParser.py:170-183 and 212-223)
RefLen(main, nseg, ngloss, npos) ==
  LET first == IF main = "segment"
                 THEN (IF nseg # 0 THEN nseg ELSE ngloss)
                 ELSE (IF ngloss # 0 THEN ngloss ELSE nseg)
  IN IF first # 0 THEN first ELSE npos

\* misalignment check: a list whose length differs from n is replaced by a
\* list of n empty strings (CHATParser.py:187-192 and 227-232)
ReplaceMisalignedMut(xs, n) ==
  [i \in 1..n |-> IF i <= Len(xs) THEN xs[i] ELSE EmptyStr]
ReplaceMisalignedFront(xs, n) ==
  IF n > Len(xs) THEN EmptyStrings(n - Len(xs)) \o xs
  ELSE [i \in 1..n |-> xs[i]]
ReplaceMisaligned(xs, n) ==
  IF n # Len(xs) THEN EmptyStrings(n) ELSE xs

\* the morphemes of one morpheme word (CHATParser.py:199-252)
WordMorphemesMut(main, wseg0, wgloss0, wpos0) ==
  LET segments == get_segments(clean_seg_word(wseg0))
      glosses  == get_glosses(clean_gloss_word(wgloss0))
      poses    == get_poses(clean_pos_word(wpos0))
      n        == Min(Len(segments), Min(Len(glosses), Len(poses)))
  IN [j \in 1..n |->
        [morpheme_language |->
            OrNone(get_morpheme_language(segments[j], glosses[j], poses[j])),
         morpheme  |-> OrNone(clean_segment(segments[j])),
         gloss_raw |-> OrNone(clean_gloss(glosses[j])),
         pos_raw   |-> OrNone(clean_pos(poses[j]))]]
WordMorphemes(main, wseg0, wgloss0, wpos0) ==
  LET wseg     == clean_seg_word(wseg0)
      wgloss   == clean_gloss_word(wgloss0)
      wpos     == clean_pos_word(wpos0)
      segs0    == get_segments(wseg)
      glosses0 == get_glosses(wgloss)
      poses0   == get_poses(wpos)
      mlen     == RefLen(main, Len(segs0), Len(glosses0), Len(poses0))
      segments == ReplaceMisaligned(segs0, mlen)
      glosses  == ReplaceMisaligned(glosses0, mlen)
      poses    == ReplaceMisaligned(poses0, mlen)
      n        == Min(Len(segments), Min(Len(glosses), Len(poses)))
  IN [j \in 1..n |->
        [morpheme_language |->
            OrNone(get_morpheme_language(segments[j], glosses[j], poses[j])),
         morpheme  |-> OrNone(clean_segment(segments[j])),
         gloss_raw |-> OrNone(clean_gloss(glosses[j])),
         pos_raw   |-> OrNone(clean_pos(poses[j]))]]

\* the morpheme data of an utterance (CHATParser.py:194-254)
CollectMorphemes(main, ws, wg, wp) ==
  [i \in 1..Min(Len(ws), Min(Len(wg), Len(wp))) |->
      WordMorphemes(main, ws[i], wg[i], wp[i])]

\* utterance_dict['warning'] (CHATParser.py:155)
UtteranceWarning(main, ws, wg, wp) == None

(* ---- CHATReader.iter_records ---- *)

\* a Python int, kept apart from None and from strings
PyInt(n) == <<"int", n>>

\* str(n) for n >= 0
Str(n) ==
  LET f[k \in 0..n] ==
        IF k < 10 THEN <<ToString(k)>>
        ELSE f[k \div 10] \o <<ToString(k % 10)>>
  IN f[n]

\* CHATReader.get_uid on the value of cls.uid
get_uid(id) == IF id # None THEN <<"u">> \o Str(id[2]) ELSE None

\* a corpus of which the model follows the record iteration over its session
\* files (every CHAT corpus is read with CHATReader.iter_records)
Sesotho == "Sesotho"

\* the session files whose records are iterated
SessionPaths == {"session1", "session2"}

\* a generator made by iter_records(session_path) that has not run yet
\* (records: the number of records in the file)
Created(n) == [state |-> "created", counter |-> 0, records |-> n, rec |-> 0]

\* first next() on the generator: the code up to the first yield
\* (CHATReader.py:265-287 and 295-297); in a file without record
\* next(rec_generator) raises StopIteration inside the generator, which ends
\* the generator silently before Python 3.7 and as RuntimeError since
StartIterRecords(it) ==
  IF it.records = 0
    THEN {[it EXCEPT !.counter = 1, !.state = end] :
            end \in {"exhausted", "raised"}}
    ELSE {[it EXCEPT !.counter = 1, !.state = "yielded", !.rec = 0]}

\* the value given to cls.uid when the generator is resumed after a yield:
\* next(counter) inside the loop, None after the last record
\* (CHATReader.py:290 and 299)
ResumedUid(it) ==
  IF it.rec + 1 < it.records THEN PyInt(it.counter) ELSE None

\* the generator resumed after a yield up to its next yield or its end
\* (CHATReader.py:288-299)
ResumeIterRecords(it) ==
  IF it.rec + 1 < it.records
    THEN [it EXCEPT !.counter = @ + 1, !.rec = @ + 1]
    ELSE [it EXCEPT !.state = "exhausted"]

(* ---- CHATReader: replacements and sentence type ---- *)

\* a corpus of which the model follows what CHATReader makes of a main line
English == "English"

\* pattern.sub(repl, s): the leftmost matches, one behind the other; MatchAt
\* gives the replacement and the last position of the match that starts at
\* a position, or NoMatch
RegexSub(s, MatchAt(_, _)) ==
  LET f[i \in 1..(Len(s)+1)] ==
        IF i > Len(s) THEN EmptyStr
        ELSE IF MatchAt(s, i) # NoMatch
          THEN MatchAt(s, i)[1] \o f[MatchAt(s, i)[2] + 1]
          ELSE <<s[i]>> \o f[i+1]
  IN f[1]

\* ' \[: .*?\]' behind position e: the position of the closing bracket, the
\* first one behind ' [: '; 0 where the pattern does not match
ReplacingEnd(s, e) ==
  IF /\ e + 5 <= Len(s)
     /\ SubSeq(s, e+1, e+4) = <<" ", "[", ":", " ">>
     /\ \E c \in (e+5)..Len(s) : s[c] = "]"
    THEN CHOOSE c \in (e+5)..Len(s) :
           s[c] = "]" /\ \A d \in (e+5)..(c-1) : s[d] # "]"
    ELSE 0

\* '<.*?>' at position i followed by the replacing words: the position of
\* the first '>' that has them behind it, or 0
ScopedEnd(s, i) ==
  LET ends == {k \in (i+1)..Len(s) : s[k] = ">" /\ ReplacingEnd(s, k) # 0}
  IN IF s[i] = "<" /\ ends # {}
       THEN CHOOSE k \in ends : \A l \in ends : k <= l
       ELSE 0

\* '\S+' at position i followed by the replacing words: the last position of
\* the run of non-blank characters, or 0
WordEnd(s, i) ==
  LET e == CHOOSE k \in i..Len(s) :
             /\ \A j \in i..k : s[j] # " "
             /\ (k = Len(s) \/ s[k+1] = " ")
  IN IF s[i] # " " /\ ReplacingEnd(s, e) # 0 THEN e ELSE 0

\* the parts of a match that is replaced: what stands for group 1 and where
\* the match ends
Replaced(s, from, to, e) ==
  IF e = 0 THEN NoMatch ELSE <<SubSeq(s, from, to), ReplacingEnd(s, e)>>

\* CHATReader.get_replacement_actual: r'<(.*?)> \[: .*?\]' and then
\* r'(\S+) \[: .*?\]', each replaced by its group 1
ScopedActual(s, i) == Replaced(s, i + 1, ScopedEnd(s, i) - 1, ScopedEnd(s, i))
WordActual(s, i) == Replaced(s, i, WordEnd(s, i), WordEnd(s, i))
get_replacement_actual(utt) ==
  RegexSub(RegexSub(utt, ScopedActual), WordActual)

\* CHATReader.get_replacement_target: r'(?:<.*?>|\S+) \[: (.*?)\]' replaced
\* by its group 1, the replacing words
ReplacedPart(s, i) ==
  IF ScopedEnd(s, i) # 0 THEN ScopedEnd(s, i) ELSE WordEnd(s, i)
ReplacingWords(s, e) ==
  IF e = 0 THEN NoMatch
  ELSE <<SubSeq(s, e + 5, ReplacingEnd(s, e) - 1), ReplacingEnd(s, e)>>
TargetMatch(s, i) == ReplacingWords(s, ReplacedPart(s, i))
get_replacement_target(utt) == RegexSub(utt, TargetMatch)

\* the exception a call ends with, kept apart from every value
Raise(exception) == <<"raise", exception>>

\* mapping of CHATReader.get_sentence_type
mapping ==
  (<<".">> :> <<"declarative">>)
  @@ (<<"?">> :> <<"question">>)
  @@ (<<"!">> :> <<"exclamation">>)
  @@ (<<"+", ".">> :> <<"broken for coding">>)
  @@ (<<"+", ".", ".", ".">> :> <<"trail off">>)
  @@ (<<"+", ".", ".", "?">> :> <<"trail off of question">>)
  @@ (<<"+", "!", "?">> :> <<"question with exclamation">>)
  @@ (<<"+", "/", ".">> :> <<"interruption">>)
  @@ (<<"+", "/", "?">> :> <<"interruption of a question">>)
  @@ (<<"+", "/", "/", ".">> :> <<"self-interruption">>)
  @@ (<<"+", "/", "/", "?">> :> <<"self-interrupted question">>)
  @@ (<<"+", "\"", "/", ".">> :> <<"quotation follows">>)
  @@ (<<"+", "\"", ".">> :> <<"quotation precedes">>)

\* terminator_regex.search(utterance) for r'([+/.!?"]*[!?.])(?=( \[\+|$))':
\* group 1 of the leftmost match, the longest one from its start
TerminatorEnds(u) ==
  {j \in 1..Len(u) :
     /\ u[j] \in {"!", "?", "."}
     /\ \/ j = Len(u)
        \/ j + 3 <= Len(u) /\ SubSeq(u, j+1, j+3) = <<" ", "[", "+">>}
TerminatorSpans(u) ==
  {span \in (1..Len(u)) \X TerminatorEnds(u) :
     /\ span[1] <= span[2]
     /\ \A k \in span[1]..span[2] : u[k] \in {"+", "/", ".", "!", "?", "\""}}
TerminatorMatch(u) ==
  IF TerminatorSpans(u) = {} THEN NoMatch
  ELSE LET i == CHOOSE a \in {span[1] : span \in TerminatorSpans(u)} :
                  \A span \in TerminatorSpans(u) : a <= span[1]
           j == CHOOSE b \in {span[2] : span \in TerminatorSpans(u)} :
                  /\ <<i, b>> \in TerminatorSpans(u)
                  /\ \A span \in TerminatorSpans(u) :
                        span[1] = i => span[2] <= b
       IN SubSeq(u, i, j)

\* CHATReader.get_sentence_type: without a match match.group(1) raises
\* AttributeError, a terminator that is not a key of the mapping KeyError
CHATReader_get_sentence_type(utt) ==
  IF TerminatorMatch(utt) = NoMatch THEN Raise("AttributeError")
  ELSE IF TerminatorMatch(utt) \notin DOMAIN mapping THEN Raise("KeyError")
  ELSE mapping[TerminatorMatch(utt)]

(* ---- TurkishCleaner ---- *)

\* the corpus whose cleaner is TurkishCleaner
Turkish == "Turkish"

\* the characters that join the stems of a complex
Separators == {"_", "+"}

\* '_' in w or '+' in w
HasSeparator(w) == \E k \in 1..Len(w) : w[k] \in Separators

\* re.split(r'[+_]', w)
SplitSeparators(w) ==
  SplitOn([k \in 1..Len(w) |-> IF w[k] \in Separators THEN "_" ELSE w[k]],
          "_")

\* w[:2]
FirstTwo(w) == SubSeq(w, 1, Min(2, Len(w)))

\* del xs[n] followed by the insertion of parts[j] at n+j, n counted from 0
ReplaceAtBy(xs, n, parts) ==
  SubSeq(xs, 1, n) \o parts \o SubSeq(xs, n + 2, Len(xs))

\* re.search(r'\S+?\|(\S+\|.*)', mword).group(1): the lazy prefix ends before
\* the first '|' that is not the first character and has another '|' at
\* least two characters behind it; a word holds no white space
DoublePosMut(mword) ==
  LET bars == {p \in 2..Len(mword) : mword[p] = "|"}
  IN IF bars = {} THEN NoMatch
     ELSE SubSeq(mword, (CHOOSE b \in bars : \A c \in bars : b <= c) + 1,
                 Len(mword))
DoublePos(mword) ==
  LET bars == {p \in 2..Len(mword) :
                 /\ mword[p] = "|"
                 /\ \E q \in (p+2)..Len(mword) : mword[q] = "|"}
  IN IF bars = {} THEN NoMatch
     ELSE SubSeq(mword, (CHOOSE b \in bars : \A c \in bars : b <= c) + 1,
                 Len(mword))

\* the locals of a scan before its loop (TurkishCleaner.py:29-34, 72-77)
EnterLoop(utterance_arg, morph_tier) ==
  [wwords       |-> SplitOn(utterance_arg, " "),
   mwords       |-> SplitOn(morph_tier, " "),
   wwords_count |-> Len(SplitOn(utterance_arg, " ")),
   mwords_count |-> Len(SplitOn(morph_tier, " ")),
   i            |-> 0]

\* while i < wwords_count and i < mwords_count
LoopCondition(st) == st.i < st.wwords_count /\ st.i < st.mwords_count

\* the words i and i+1 are joined (TurkishCleaner.py:38-46)
JoinsNext(st) ==
  /\ HasSeparator(st.mwords[st.i + 1])
  /\ ~HasSeparator(st.wwords[st.i + 1])
  /\ Contains(st.mwords[st.i + 1], FirstTwo(st.wwords[st.i + 1]))
  /\ st.i + 1 < st.wwords_count
  /\ Contains(st.mwords[st.i + 1], FirstTwo(st.wwords[st.i + 2]))

\* one pass of the loop body of single_morph_word (TurkishCleaner.py:36-50)
SingleMorphWordBodyMut(st) ==
  IF JoinsNext(st)
    THEN [st EXCEPT
            !.wwords = ReplaceAtBy(@, st.i,
                                   <<@[st.i + 1] \o <<"_">> \o @[st.i + 2]>>),
            !.i = @ + 1]
    ELSE [st EXCEPT !.i = @ + 1]
SingleMorphWordBody(st) ==
  IF JoinsNext(st)
    THEN [st EXCEPT
            !.wwords = SubSeq(@, 1, st.i)
                         \o <<@[st.i + 1] \o <<"_">> \o @[st.i + 2]>>
                         \o SubSeq(@, st.i + 3, Len(@)),
            !.wwords_count = @ - 1,
            !.i = @ + 1]
    ELSE [st EXCEPT !.i = @ + 1]

\* one pass of the loop body of separate_morph_word (TurkishCleaner.py:79-101)
SeparateWordsMut(st, mword) ==
  IF HasSeparator(st.wwords[st.i + 1])
    THEN [st EXCEPT
            !.mwords = ReplaceAtBy(@, st.i, SplitSeparators(mword)),
            !.mwords_count = @ + Len(SplitSeparators(mword)),
            !.wwords = ReplaceAtBy(@, st.i, SplitSeparators(@[st.i + 1])),
            !.wwords_count = @ + Len(SplitSeparators(st.wwords[st.i + 1])),
            !.i = @ + 1]
    ELSE [st EXCEPT
            !.mwords = ReplaceAtBy(@, st.i, SplitSeparators(mword)),
            !.mwords_count = @ + Len(SplitSeparators(mword)),
            !.i = @ + 1]
SeparateWords(st, mword) ==
  IF HasSeparator(st.wwords[st.i + 1])
    THEN [st EXCEPT
            !.mwords = ReplaceAtBy(@, st.i, SplitSeparators(mword)),
            !.mwords_count = @ - 1 + Len(SplitSeparators(mword)),
            !.wwords = ReplaceAtBy(@, st.i, SplitSeparators(@[st.i + 1])),
            !.wwords_count = @ - 1 + Len(SplitSeparators(st.wwords[st.i + 1])),
            !.i = @ + 1]
    ELSE [st EXCEPT
            !.mwords = ReplaceAtBy(@, st.i, SplitSeparators(mword)),
            !.mwords_count = @ - 1 + Len(SplitSeparators(mword)),
            !.i = @ + 1]
SeparateMorphWordBodyMut(st) ==
  IF DoublePos(st.mwords[st.i + 1]) = NoMatch
    THEN [st EXCEPT !.i = @ + 1]
    ELSE SeparateWords(st, st.mwords[st.i + 1])
SeparateMorphWordBody(st) ==
  IF DoublePos(st.mwords[st.i + 1]) = NoMatch
    THEN [st EXCEPT !.i = @ + 1]
    ELSE SeparateWords(st, DoublePos(st.mwords[st.i + 1]))

\* the loop of single_morph_word run to its end: the count of the words does
\* not grow, so the loop makes at most len(wwords) passes
SingleMorphWordPass(st) ==
  IF LoopCondition(st) THEN SingleMorphWordBody(st) ELSE st
SingleMorphWordLoop(st0) ==
  LET f[n \in 0..Len(st0.wwords)] ==
        IF n = 0 THEN st0 ELSE SingleMorphWordPass(f[n-1])
  IN f[Len(st0.wwords)]

\* the loop of separate_morph_word run to its end: every word it makes is
\* cut out of the morphology tier, so the loop makes at most one pass per
\* character of the tier and one more
SeparateMorphWordPass(st) ==
  IF LoopCondition(st) THEN SeparateMorphWordBody(st) ELSE st
SeparateMorphWordLoop(st0, passes) ==
  LET f[n \in 0..passes] ==
        IF n = 0 THEN st0 ELSE SeparateMorphWordPass(f[n-1])
  IN f[passes]

\* TurkishCleaner.single_morph_word: (utterance, morph_tier)
single_morph_word(utterance_arg, morph_tier) ==
  <<JoinWith(SingleMorphWordLoop(EnterLoop(utterance_arg, morph_tier)).wwords,
             " "),
    morph_tier>>

\* TurkishCleaner.separate_morph_word: (utterance, morph_tier)
SeparateMorphWordResult(st) ==
  <<JoinWith(st.wwords, " "), JoinWith(st.mwords, " ")>>
separate_morph_word(utterance_arg, morph_tier) ==
  SeparateMorphWordResult(
    SeparateMorphWordLoop(EnterLoop(utterance_arg, morph_tier),
                          Len(morph_tier) + 1))

\* TurkishCleaner.cross_clean: (actual_utt, target_utt, seg_tier, gloss_tier,
\* pos_tier); both utterances are repaired against the same morphology tier
SeparateAfterSingle(pair) == separate_morph_word(pair[1], pair[2])
CleanAgainst(utterance_arg, morph_tier) ==
  SeparateAfterSingle(single_morph_word(utterance_arg, morph_tier))
CrossCleanReturn(actual, target) ==
  <<actual[1], target[1], target[2], target[2], target[2]>>
CrossCleanTarget(actual, target_arg) ==
  CrossCleanReturn(actual, CleanAgainst(target_arg, actual[2]))
cross_clean(actual_arg, target_arg, seg_arg, gloss_arg, pos_arg) ==
  CrossCleanTarget(CleanAgainst(actual_arg, seg_arg), target_arg)

\* the token matched by (xxx|y{3,}|www) at position k of s, followed by
\* (\s|$|\.): its length, or 0 when there is none; y{3,} is greedy and the
\* character behind a shorter run of y would be a y
UntranscribedAt(s, k) ==
  LET ys == CHOOSE n \in 0..Len(s) :
              /\ \A j \in k..(k + n - 1) : j <= Len(s) /\ s[j] = "y"
              /\ (k + n > Len(s) \/ s[k + n] # "y")
      len == IF k + 2 <= Len(s)
                /\ SubSeq(s, k, k + 2) \in {<<"x", "x", "x">>,
                                            <<"w", "w", "w">>}
               THEN 3
             ELSE IF ys >= 3 THEN ys ELSE 0
  IN IF len > 0 /\ (k + len > Len(s) \/ s[k + len] \in {" ", "."})
       THEN len ELSE 0

\* TurkishCleaner.unify_untranscribed: re.sub of
\* r'(^|\s)(xxx|y{3,}|www)(\s|$|\.)' by r'\1???\3'; a match takes the
\* character of its third group with it, so the next match is searched
\* behind that character
unify_untranscribed(s) ==
  LET f[k \in 1..(Len(s) + 2)] ==
        IF k > Len(s) THEN EmptyStr
        ELSE IF k = 1 /\ UntranscribedAt(s, 1) > 0
          THEN <<"?", "?", "?">>
                 \o SubSeq(s, 1 + UntranscribedAt(s, 1),
                           Min(1 + UntranscribedAt(s, 1), Len(s)))
                 \o f[Min(2 + UntranscribedAt(s, 1), Len(s) + 1)]
        ELSE IF s[k] = " " /\ UntranscribedAt(s, k + 1) > 0
          THEN <<" ", "?", "?", "?">>
                 \o SubSeq(s, k + 1 + UntranscribedAt(s, k + 1),
                           Min(k + 1 + UntranscribedAt(s, k + 1), Len(s)))
                 \o f[Min(k + 2 + UntranscribedAt(s, k + 1), Len(s) + 1)]
        ELSE <<s[k]>> \o f[k + 1]
  IN f[1]

(* ---- postprocessor.db_apply ---- *)

\* a corpus of which the model follows the postprocessing of the database
Yucatec == "Yucatec"

\* a call that returns
Returned == <<"returned">>

\* what `except Exception` catches: an exception of the class Exception,
\* not KeyboardInterrupt, SystemExit or GeneratorExit, which derive from
\* BaseException only
Caught(result) == result = Raise("Exception")

\* the session before update_session has run (calls: the calls made on the
\* session in their order; result: how update_session ended)
NoSession == [func |-> Absent, commit |-> Absent, calls |-> <<>>,
              result |-> Absent]

\* try: func(session, config); session.commit()
\* (postprocessor.py:41-43); commit is not called when func raises
TryBlock(func_result, commit_result) ==
  IF func_result # Returned
    THEN [func |-> func_result, commit |-> Absent, calls |-> <<>>,
          result |-> func_result]
    ELSE [func |-> func_result, commit |-> commit_result,
          calls |-> <<"commit">>, result |-> commit_result]

\* except Exception as e: session.rollback(); print(...)
\* (postprocessor.py:44-46)
ExceptBlock(s) ==
  IF Caught(s.result)
    THEN [s EXCEPT !.calls = Append(@, "rollback"), !.result = Returned]
    ELSE s

\* finally: session.close() (postprocessor.py:47-48)
FinallyBlockMut(s) ==
  IF s.result = Returned THEN [s EXCEPT !.calls = Append(@, "close")] ELSE s
FinallyBlock(s) == [s EXCEPT !.calls = Append(@, "close")]

\* update_session, the wrapper db_apply returns (postprocessor.py:27-48);
\* rollback, print and close return
update_session(func_result, commit_result) ==
  FinallyBlock(ExceptBlock(TryBlock(func_result, commit_result)))

(* ---- inputs ---- *)

\* the letters of the tokens of each tier: the k-th token of a tier is the
\* k-th letter of its alphabet, so that a token shows where it came from
SegLetters == <<"s", "t", "u", "v">>
GlossLetters == <<"g", "h", "i", "j">>
PosLetters == <<"p", "q", "r", "o">>
LangLetters == <<"l", "m", "l", "l">>
WordLetters == <<"w", "a", "b", "c">>
Letter(chs, k) == chs[((k - 1) % Len(chs)) + 1]

\* tier strings of at most n morphemes: the morphemes of a word are joined
\* by '~', the words by ' '
TierStrings(chs, n) ==
  LET f[k \in 0..n] ==
        IF k = 0 THEN [len \in {0} |-> {EmptyStr}]
        ELSE IF k = 1 THEN (0 :> {EmptyStr}) @@ (1 :> {<<Letter(chs, 1)>>})
        ELSE f[k-1] @@ (k :> {t \o <<sep, Letter(chs, k)>> :
                                t \in f[k-1][k-1], sep \in {" ", "~"}})
  IN UNION {f[n][k] : k \in 0..n}

\* utterances of at most n words
UttStrings(n) ==
  {JoinWith([i \in 1..k |-> <<Letter(WordLetters, i)>>], " ") : k \in 0..n}

MainMorphemes == {"segment", "gloss"}

NoRecord == [source_id |-> None, utterance |-> None, warning |-> None]

CHATCorpora == {"Cree"}

\* the corpora read with a CHATReader
CHATReaders == CHATCorpora \cup {Inuktitut}

\* contents of the Inuktitut xmor tier of at most n morphemes: a morpheme is
\* pos|seg^gloss, the morphemes of a word are joined by '+', the words by ' '
XmorMorpheme(k) ==
  <<Letter(PosLetters, k), "|", Letter(SegLetters, k), "^",
    Letter(GlossLetters, k)>>
XmorStrings(n) ==
  LET f[k \in 0..n] ==
        IF k = 0 THEN [len \in {0} |-> {EmptyStr}]
        ELSE IF k = 1 THEN (0 :> {EmptyStr}) @@ (1 :> {XmorMorpheme(1)})
        ELSE f[k-1] @@ (k :> {t \o <<sep>> \o XmorMorpheme(k) :
                                t \in f[k-1][k-1], sep \in {" ", "+"}})
  IN UNION {f[n][k] : k \in 0..n}

\* the segment, gloss and POS tier of a record: three dependent tiers in
\* Cree, three times the xmor tier in Inuktitut (CHATReader.py:714-724)
MorphologyTiers(corpus_name) ==
  IF corpus_name = Inuktitut
    THEN {<<x, x, x>> : x \in XmorStrings(MaxTokens)}
    ELSE TierStrings(SegLetters, MaxTokens)
           \X TierStrings(GlossLetters, MaxTokens)
           \X TierStrings(PosLetters, MaxTokens)

\* the tokens of the Russian \mor tier
RussianTokens == {<<"p">>, <<"V", "-", "g", ":", "g">>, <<"p", ":", "g">>,
                  <<"A", ":", "g">>}

\* Toolbox tier contents of at most n tokens: a stem, then stems and
\* hyphen-marked suffixes, separated by single blanks
ToolboxStrings(chs, n) ==
  LET f[k \in 1..n] ==
        IF k = 1 THEN (1 :> {<<Letter(chs, 1)>>})
        ELSE f[k-1] @@ (k :> {t \o tok : t \in f[k-1][k-1],
                               tok \in {<<" ", Letter(chs, k)>>,
                                        <<" ", "-", Letter(chs, k)>>}})
  IN UNION {f[n][k] : k \in 1..n}

RussianPosStrings(n) ==
  LET f[k \in 0..n] ==
        IF k = 0 THEN {}
        ELSE IF k = 1 THEN RussianTokens
        ELSE f[k-1] \cup {t \o <<" ">> \o tok : t \in f[k-1],
                                                tok \in RussianTokens}
  IN f[n]

\* a tier of a record: not there, a marker without content, or a content
Optional(S) == {Absent, None} \cup S

SpeakerLabels == {<<"S">>, <<"@", "P", "A", "R">>}
Utterances == UttStrings(MaxUttWords) \ {EmptyStr}
Directedness == {Absent, None, Directed, Child \o <<" ">> \o Directed}

\* Chintang tier contents of at most n tokens in which a blank, a hyphen
\* before the next token, a hyphen behind the last token or a floating
\* clitic marker stands between two tokens, and the tier of the comment at
\* toolbox.py:490
CliticSeparators == {<<" ">>, <<" ", "-">>, <<"-", " ">>, <<" ", "-", " ">>}
CliticStrings(chs, n) ==
  LET f[k \in 1..n] ==
        IF k = 1 THEN {<<Letter(chs, 1)>>}
        ELSE {t \o sep \o <<Letter(chs, k)>> :
                t \in f[k-1], sep \in CliticSeparators}
  IN UNION {f[k] : k \in 1..n}
HapINig == <<"h", "a", "p", " ", "-", "i", " ", "-", "n", "i", "g", " ",
             "h", "a", "p", " ", "-", "i", " ", "-", "n", "i", "g">>
CliticRecords ==
  {[speaker_label |-> <<"S">>, utterance_raw |-> <<"w">>, morpheme |-> m,
    gloss_raw |-> g, pos_raw |-> Absent, morpheme_lang |-> Absent,
    childdirected |-> Absent, nepali |-> Absent, repeated |-> Absent] :
     g \in CliticStrings(GlossLetters, MaxCliticTokens) \cup {HapINig},
     m \in {Absent, HapINig}}

\* records with a terminated utterance and, in Chintang, a Nepali
\* translation
SentenceUtterances ==
  {<<"w">>, <<"w", ".">>, <<"w", "?">>, <<"w", "!">>, <<"w", " ", "?">>,
   <<"w", ".", " ", "a">>, <<"w", "!", " ", "a", "?">>,
   <<"w", " ", "?", " ", "a", "!">>}
NepaliTiers ==
  {Absent, None, <<"n">>, <<"n", Danda>>, <<"n", "?">>, <<"n", "!">>}
SentenceRecords(corpus_name) ==
  {[speaker_label |-> <<"S">>, utterance_raw |-> u, morpheme |-> Absent,
    gloss_raw |-> Absent, pos_raw |-> Absent, morpheme_lang |-> Absent,
    childdirected |-> Absent, nepali |-> n, repeated |-> Absent] :
     u \in SentenceUtterances,
     n \in (IF corpus_name = Chintang THEN NepaliTiers ELSE {Absent})}

\* records with tiers that have no content, one of them on two lines, and
\* with insecure transcriptions
WarningUtterances ==
  {Absent, None, <<"w">>, <<"w", " ", "[", "?", "]">>,
   <<"w", " ", "[", "=", "?", " ", "a", "]">>}
WarningRecords ==
  {[speaker_label |-> sl, utterance_raw |-> u, morpheme |-> Absent,
    gloss_raw |-> Absent, pos_raw |-> p, morpheme_lang |-> Absent,
    childdirected |-> Absent, nepali |-> Absent, repeated |-> r] :
     sl \in {<<"S">>, None}, u \in WarningUtterances, p \in {Absent, None},
     r \in {Absent, <<"speaker_label">>, <<"utterance_raw">>, <<"pos_raw">>}}

\* how the wrapped function and session.commit() can end: they return,
\* raise an Exception (commit: the flush of the changed rows fails), or are
\* interrupted from the keyboard
CallResults == {Returned, Raise("Exception"), Raise("KeyboardInterrupt")}

\* the records of the files whose iteration is followed: with and without
\* utterance text, with and without an empty \mb tier, and for Chintang
\* with and without an empty \tos tier
FileRecords(corpus_name) ==
  {[speaker_label |-> <<"S">>, utterance_raw |-> u, morpheme |-> m,
    gloss_raw |-> Absent, pos_raw |-> Absent, morpheme_lang |-> Absent,
    childdirected |-> d, nepali |-> Absent, repeated |-> Absent] :
     u \in {Absent, <<"w">>}, m \in {Absent, None},
     d \in (IF corpus_name = Chintang THEN {Absent, None} ELSE {Absent})}
ToolboxFileContents(corpus_name) ==
  UNION {[1..n -> FileRecords(corpus_name)] : n \in 0..MaxRecords}

\* the records of a corpus: the tiers its configuration maps
Records(corpus_name) ==
  IF corpus_name = Other THEN
    {[speaker_label |-> sl, utterance_raw |-> u, morpheme |-> m,
      gloss_raw |-> Absent, pos_raw |-> Absent, morpheme_lang |-> Absent,
      childdirected |-> Absent, nepali |-> Absent, repeated |-> Absent] :
       sl \in SpeakerLabels, u \in Optional(Utterances),
       m \in Optional(ToolboxStrings(SegLetters, MaxToolboxTokens))}
  ELSE IF corpus_name = Russian THEN
    {[speaker_label |-> sl, utterance_raw |-> u, morpheme |-> m,
      gloss_raw |-> Absent, pos_raw |-> p, morpheme_lang |-> Absent,
      childdirected |-> Absent, nepali |-> Absent, repeated |-> Absent] :
       sl \in SpeakerLabels, u \in Optional(Utterances),
       m \in Optional(ToolboxStrings(SegLetters, MaxToolboxTokens)),
       p \in Optional(RussianPosStrings(MaxToolboxTokens))}
  ELSE IF corpus_name = Indonesian THEN
    {[speaker_label |-> sl, utterance_raw |-> u, morpheme |-> m,
      gloss_raw |-> g, pos_raw |-> Absent, morpheme_lang |-> Absent,
      childdirected |-> Absent, nepali |-> Absent, repeated |-> Absent] :
       sl \in SpeakerLabels, u \in Optional(Utterances),
       m \in Optional(ToolboxStrings(SegLetters, MaxToolboxTokens)),
       g \in Optional(ToolboxStrings(GlossLetters, MaxToolboxTokens))}
  ELSE
    {[speaker_label |-> sl, utterance_raw |-> u, morpheme |-> m,
      gloss_raw |-> g, pos_raw |-> p, morpheme_lang |-> l,
      childdirected |-> d, nepali |-> Absent, repeated |-> Absent] :
       sl \in SpeakerLabels, u \in Optional(Utterances),
       m \in Optional(ToolboxStrings(SegLetters, MaxToolboxTokens)),
       g \in Optional(ToolboxStrings(GlossLetters, MaxToolboxTokens)),
       p \in Optional(ToolboxStrings(PosLetters, MaxToolboxTokens)),
       l \in Optional(ToolboxStrings(LangLetters, MaxToolboxTokens)),
       d \in Directedness}
    \cup CliticRecords

\* the words of the utterances and of the morphology tiers the Turkish
\* cleaner is followed on: single stems, a complex with one POS tag, a
\* complex with a POS tag of its own for each stem, and a word with three
\* POS tags
OrthTokens == {<<"a">>, <<"b">>, <<"a", "_", "b">>}
MorphTokens ==
  {<<"P", "|", "a">>, <<"P", "|", "a", "_", "b">>, <<"P", "|", "a", "+", "b">>,
   <<"W", "|", "P", "|", "a", "_", "Q", "|", "b">>,
   <<"W", "|", "V", "|", "P", "|", "a">>}

\* the tokens of utterances with untranscribed material
RawTokens == {<<"x", "x", "x">>, <<"w", "w", "w">>, <<"y", "y", "y", "y">>,
              <<"y", "y">>, <<"a">>}

\* the strings of at most n of the tokens, separated by single blanks
TokenStrings(tokens, n) ==
  LET f[k \in 0..n] ==
        IF k = 0 THEN {EmptyStr}
        ELSE IF k = 1 THEN tokens
        ELSE {t \o <<" ">> \o tok : t \in f[k-1], tok \in tokens}
  IN UNION {f[k] : k \in 0..n}

\* the main lines CHATReader is followed on: words, words with replacing
\* words and scoped words with replacing words, then a terminator of the
\* mapping, one that is not in it, or none
MainLineTokens ==
  {<<"a">>,
   <<"a", " ", "[", ":", " ", "b", "]">>,
   <<"a", " ", "[", ":", " ", "b", " ", "c", "]">>,
   <<"<", "a", " ", "b", ">", " ", "[", ":", " ", "c", "]">>,
   <<"<", "a", " ", "b", ">", " ", "[", ":", " ", "c", " ", "d", "]">>}
Terminators == DOMAIN mapping \cup {<<"+", "?">>, EmptyStr}
MainLines ==
  {IF t = EmptyStr THEN body ELSE body \o <<" ">> \o t :
     body \in TokenStrings(MainLineTokens, MaxMainTokens) \ {EmptyStr},
     t \in Terminators}

\* no scan is in progress
NoLoop == [wwords |-> <<>>, mwords |-> <<>>, wwords_count |-> 0,
           mwords_count |-> 0, i |-> 0]

\* the corpora whose parser is followed through a record with a CHATReader
\* or with the Turkish cleaner
CHATParsers == CHATReaders \cup {Turkish}

NoInput ==
  [k \in {RecordKeys[i] : i \in 1..Len(RecordKeys)} \cup {"repeated"} |->
     Absent]

Init ==
  /\ corpus \in CHATParsers \cup ToolboxFiles
                \cup {Sesotho, English, Yucatec}
  /\ pc = "start"
  /\ main_morpheme \in (IF corpus \in CHATReaders THEN MainMorphemes
                                                  ELSE {"gloss"})
  /\ record = NoInput
  /\ outcome = "none"
  /\ utterance = NoUtterance
  /\ tiers = NoTiers
  /\ actual_utt = EmptyStr
  /\ target_utt = EmptyStr
  /\ seg_tier = EmptyStr
  /\ gloss_tier = EmptyStr
  /\ pos_tier = EmptyStr
  /\ wlen = 0
  /\ wsegs = <<>>
  /\ wglosses = <<>>
  /\ wposes = <<>>
  /\ utterance_dict = NoRecord
  /\ words = <<>>
  /\ morphemes = <<>>
  /\ loop = NoLoop
  /\ mor_tier = EmptyStr
  /\ uid = None
  /\ sentence_type = None
  /\ toolbox_file = NoFile
  /\ session = NoSession
  /\ iterations \in [SessionPaths ->
                       {Created(n) : n \in (IF corpus = Sesotho
                                              THEN 0..MaxRecords ELSE {0})}]

CleanerVars == <<loop, mor_tier>>
ReaderVars == <<uid, iterations, sentence_type, toolbox_file>>
ToolboxVars == <<record, outcome, utterance, tiers>>
CHATVars == <<actual_utt, target_utt, seg_tier, gloss_tier, pos_tier, wlen,
              wsegs, wglosses, wposes, utterance_dict>>

\* reader.load_next_record() returns true: the reader holds the next record
\* (CHATParser.py:75-109)
LoadNextRecord ==
  /\ corpus \in CHATReaders
  /\ pc = "start"
  /\ \E a \in UttStrings(MaxUttWords), t \in UttStrings(MaxUttWords),
        m \in MorphologyTiers(corpus) :
       /\ actual_utt' = a
       /\ target_utt' = t
       /\ seg_tier' = m[1]
       /\ gloss_tier' = m[2]
       /\ pos_tier' = m[3]
  /\ pc' = "loaded"
  /\ UNCHANGED session
  /\ UNCHANGED <<corpus, main_morpheme, wlen, wsegs, wglosses, wposes,
                 utterance_dict, words, morphemes>>
  /\ UNCHANGED ToolboxVars
  /\ UNCHANGED CleanerVars
  /\ UNCHANGED ReaderVars

\* get_segments, get_glosses or get_poses raises on a morpheme word of the
\* utterance (CHATParser.py:199-208): only InuktitutReader.iter_morphemes can
MorphemesRaise(ws, wg, wp) ==
  /\ corpus = Inuktitut
  /\ \E i \in 1..Min(Len(ws), Min(Len(wg), Len(wp))) :
        \/ IterMorphemesRaises(clean_seg_word(ws[i]))
        \/ IterMorphemesRaises(clean_gloss_word(wg[i]))
        \/ IterMorphemesRaises(clean_pos_word(wp[i]))

\* the morpheme words the loop over the words goes through
\* (CHATParser.py:163-192)
MorphemeWords(main, tier, s, g, p) ==
  ReplaceMisaligned(get_words(tier),
                    RefLen(main, Len(get_seg_words(s)),
                           Len(get_gloss_words(g)), Len(get_pos_words(p))))

\* the pass raises before it reaches the yield: nothing is yielded and the
\* exception leaves next_utterance (CHATParser.py:199-208)
RaiseInUtterance ==
  /\ corpus \in CHATReaders
  /\ pc = "loaded"
  /\ MorphemesRaise(
        MorphemeWords(main_morpheme, seg_tier, seg_tier, gloss_tier, pos_tier),
        MorphemeWords(main_morpheme, gloss_tier, seg_tier, gloss_tier,
                      pos_tier),
        MorphemeWords(main_morpheme, pos_tier, seg_tier, gloss_tier, pos_tier))
  /\ pc' = "raised"
  /\ UNCHANGED session
  /\ UNCHANGED <<corpus, main_morpheme, words, morphemes>>
  /\ UNCHANGED CHATVars
  /\ UNCHANGED ToolboxVars
  /\ UNCHANGED CleanerVars
  /\ UNCHANGED ReaderVars

\* one pass of the loop body up to the yield (CHATParser.py:111-256)
YieldUtterance ==
  /\ corpus \in CHATReaders
  /\ pc = "loaded"
  /\ ~MorphemesRaise(
        MorphemeWords(main_morpheme, seg_tier, seg_tier, gloss_tier, pos_tier),
        MorphemeWords(main_morpheme, gloss_tier, seg_tier, gloss_tier,
                      pos_tier),
        MorphemeWords(main_morpheme, pos_tier, seg_tier, gloss_tier, pos_tier))
  /\ LET ws0 == get_seg_words(seg_tier)
         wg0 == get_gloss_words(gloss_tier)
         wp0 == get_pos_words(pos_tier)
         n   == RefLen(main_morpheme, Len(ws0), Len(wg0), Len(wp0))
         ws  == ReplaceMisaligned(ws0, n)
         wg  == ReplaceMisaligned(wg0, n)
         wp  == ReplaceMisaligned(wp0, n)
         ww  == CollectWords(actual_utt, target_utt)
         utt == JoinWith([i \in 1..Len(ww) |-> ww[i].word], " ")
     IN /\ wlen' = n
        /\ wsegs' = ws
        /\ wglosses' = wg
        /\ wposes' = wp
        /\ words' = ww
        /\ utterance_dict' =
             [source_id |-> <<"u">>,
              utterance |-> OrNone(utt),
              warning   |-> UtteranceWarning(main_morpheme, ws0, wg0, wp0)]
        /\ morphemes' = CollectMorphemes(main_morpheme, ws, wg, wp)
  /\ pc' = "yielded"
  /\ UNCHANGED session
  /\ UNCHANGED <<corpus, main_morpheme, actual_utt, target_utt, seg_tier,
                 gloss_tier, pos_tier>>
  /\ UNCHANGED ToolboxVars
  /\ UNCHANGED CleanerVars
  /\ UNCHANGED ReaderVars

\* ToolboxFile.__iter__ cuts the next record out of the file
\* (toolbox.py:84-96)
NextRecord ==
  /\ corpus \in ToolboxFiles
  /\ pc = "start"
  /\ record' \in IF corpus = Other THEN Records(corpus)
                 ELSE Records(corpus) \cup SentenceRecords(corpus)
                      \cup WarningRecords
  /\ pc' = "loaded"
  /\ UNCHANGED session
  /\ UNCHANGED <<corpus, main_morpheme, outcome, utterance, tiers, words,
                 morphemes>>
  /\ UNCHANGED CHATVars
  /\ UNCHANGED CleanerVars
  /\ UNCHANGED ReaderVars

\* ToolboxFile.make_rec on the record (toolbox.py:99-195)
MakeRec ==
  /\ corpus \in ToolboxFiles
  /\ pc = "loaded"
  /\ \E r \in {make_rec(corpus, record)} :
        /\ outcome' = r.outcome
        /\ utterance' = r.utterance
        /\ words' = r.words
        /\ morphemes' = r.morphemes
        /\ tiers' = r.tiers
  /\ pc' = IF outcome' = "raised" THEN "done" ELSE "yielded"
  /\ UNCHANGED session
  /\ UNCHANGED <<corpus, main_morpheme, record>>
  /\ UNCHANGED CHATVars
  /\ UNCHANGED CleanerVars
  /\ UNCHANGED ReaderVars

\* the generator of ToolboxFile.__iter__ runs up to its next yield or its
\* end and leaves what make_rec made of the record (toolbox.py:84-96)
RunToolboxFile(it) ==
  /\ toolbox_file' = it
  /\ record' = it.records[it.pos]
  /\ \E made \in {make_rec(corpus, it.records[it.pos])} :
        /\ outcome' = made.outcome
        /\ utterance' = made.utterance
        /\ words' = made.words
        /\ morphemes' = made.morphemes
        /\ tiers' = made.tiers
EndToolboxFile(it) ==
  /\ toolbox_file' = it
  /\ UNCHANGED <<record, outcome, utterance, words, morphemes, tiers>>

\* the consumer of a Toolbox file asks the generator for the first record
ToolboxFileFirst ==
  /\ corpus \in ToolboxFiles
  /\ pc = "start"
  /\ toolbox_file.state = "created"
  /\ \E recs \in ToolboxFileContents(corpus) :
      \E it \in {StartToolboxFile(recs)} :
        IF it.state = "raised" THEN EndToolboxFile(it)
        ELSE \E made \in {make_rec(corpus, it.records[it.pos])} :
                RunToolboxFile(YieldMadeRecord(it, made))
  /\ pc' = "iterating"
  /\ UNCHANGED session
  /\ UNCHANGED <<corpus, main_morpheme, uid, iterations, sentence_type>>
  /\ UNCHANGED CHATVars
  /\ UNCHANGED CleanerVars

\* the consumer of a Toolbox file asks the generator for the next record
ToolboxFileNext ==
  /\ corpus \in ToolboxFiles
  /\ pc = "iterating"
  /\ toolbox_file.state = "yielded"
  /\ \E it \in {ResumeToolboxFile(toolbox_file)} :
        IF it.state = "exhausted" THEN EndToolboxFile(it)
        ELSE \E made \in {make_rec(corpus, it.records[it.pos])} :
                RunToolboxFile(YieldMadeRecord(it, made))
  /\ UNCHANGED session
  /\ UNCHANGED <<corpus, pc, main_morpheme, uid, iterations, sentence_type>>
  /\ UNCHANGED CHATVars
  /\ UNCHANGED CleanerVars

\* the consumer asks for the next utterance: control returns to the head of
\* the loop and the locals of the finished pass are dead
\* (CHATParser.py:75, toolbox.py:90-92)
Resume ==
  /\ pc = "yielded"
  /\ pc' = "start"
  /\ record' = NoInput
  /\ outcome' = "none"
  /\ utterance' = NoUtterance
  /\ tiers' = NoTiers
  /\ actual_utt' = EmptyStr
  /\ target_utt' = EmptyStr
  /\ seg_tier' = EmptyStr
  /\ gloss_tier' = EmptyStr
  /\ pos_tier' = EmptyStr
  /\ wlen' = 0
  /\ wsegs' = <<>>
  /\ wglosses' = <<>>
  /\ wposes' = <<>>
  /\ utterance_dict' = NoRecord
  /\ words' = <<>>
  /\ morphemes' = <<>>
  /\ UNCHANGED session
  /\ UNCHANGED <<corpus, main_morpheme>>
  /\ UNCHANGED CleanerVars
  /\ UNCHANGED ReaderVars

\* no record is left: the loop ends
EndOfSession ==
  /\ corpus \in CHATParsers \cup ToolboxFiles
  /\ pc = "start"
  /\ pc' = "done"
  /\ UNCHANGED session
  /\ UNCHANGED <<corpus, main_morpheme, words, morphemes>>
  /\ UNCHANGED CHATVars
  /\ UNCHANGED ToolboxVars
  /\ UNCHANGED CleanerVars
  /\ UNCHANGED ReaderVars

\* the Turkish parser holds the next record: the utterances and the
\* morphology tier, which is the segment, the gloss and the POS tier
\* (CHATParser.py:75-105)
LoadNextTurkishRecord ==
  /\ corpus = Turkish
  /\ pc = "start"
  /\ \E a \in TokenStrings(OrthTokens, MaxOrthWords),
        m \in TokenStrings(MorphTokens, MaxMorphWords) :
       \E t \in {a, EmptyStr} :
         /\ actual_utt' = a
         /\ target_utt' = t
         /\ seg_tier' = m
         /\ gloss_tier' = m
         /\ pos_tier' = m
         /\ record' = [actual_utt |-> a, target_utt |-> t, seg_tier |-> m,
                        gloss_tier |-> m, pos_tier |-> m]
  /\ pc' = "loaded"
  /\ UNCHANGED session
  /\ UNCHANGED <<corpus, main_morpheme, outcome, utterance, tiers, wlen,
                 wsegs, wglosses, wposes, utterance_dict, words, morphemes>>
  /\ UNCHANGED CleanerVars
  /\ UNCHANGED ReaderVars

\* cross_clean is called and calls single_morph_word on the actual
\* utterance, which splits its arguments (TurkishCleaner.py:109-110, 29-34)
CrossClean ==
  /\ corpus = Turkish
  /\ pc = "loaded"
  /\ mor_tier' = seg_tier
  /\ loop' = EnterLoop(actual_utt, seg_tier)
  /\ pc' = "single_actual"
  /\ UNCHANGED session
  /\ UNCHANGED <<corpus, main_morpheme, words, morphemes>>
  /\ UNCHANGED CHATVars
  /\ UNCHANGED ToolboxVars
  /\ UNCHANGED ReaderVars

\* one pass of the loop of single_morph_word (TurkishCleaner.py:35-50)
SingleMorphWordIteration ==
  /\ corpus = Turkish
  /\ pc \in {"single_actual", "single_target"}
  /\ LoopCondition(loop)
  /\ loop' = SingleMorphWordBody(loop)
  /\ UNCHANGED session
  /\ UNCHANGED <<corpus, pc, main_morpheme, words, morphemes, mor_tier>>
  /\ UNCHANGED CHATVars
  /\ UNCHANGED ToolboxVars
  /\ UNCHANGED ReaderVars

\* single_morph_word returns and cross_clean calls separate_morph_word on
\* what it returned (TurkishCleaner.py:52, 110-113, 72-77)
SingleMorphWordReturn ==
  /\ corpus = Turkish
  /\ pc \in {"single_actual", "single_target"}
  /\ ~LoopCondition(loop)
  /\ \E r \in {<<JoinWith(loop.wwords, " "), mor_tier>>} :
        /\ actual_utt' = IF pc = "single_actual" THEN r[1] ELSE actual_utt
        /\ target_utt' = IF pc = "single_target" THEN r[1] ELSE target_utt
        /\ mor_tier' = r[2]
        /\ loop' = EnterLoop(r[1], r[2])
  /\ pc' = IF pc = "single_actual" THEN "separate_actual"
                                    ELSE "separate_target"
  /\ UNCHANGED session
  /\ UNCHANGED <<corpus, main_morpheme, words, morphemes, seg_tier,
                 gloss_tier, pos_tier, wlen, wsegs, wglosses, wposes,
                 utterance_dict>>
  /\ UNCHANGED ToolboxVars
  /\ UNCHANGED ReaderVars

\* one pass of the loop of separate_morph_word (TurkishCleaner.py:78-101)
SeparateMorphWordIteration ==
  /\ corpus = Turkish
  /\ pc \in {"separate_actual", "separate_target"}
  /\ LoopCondition(loop)
  /\ loop' = SeparateMorphWordBody(loop)
  /\ UNCHANGED session
  /\ UNCHANGED <<corpus, pc, main_morpheme, words, morphemes, mor_tier>>
  /\ UNCHANGED CHATVars
  /\ UNCHANGED ToolboxVars
  /\ UNCHANGED ReaderVars

\* separate_morph_word returns; cross_clean goes on with the target
\* utterance, or returns mor_tier for the segment, the gloss and the POS
\* tier (TurkishCleaner.py:103, 111-115)
SeparateMorphWordReturn ==
  /\ corpus = Turkish
  /\ pc \in {"separate_actual", "separate_target"}
  /\ ~LoopCondition(loop)
  /\ \E r \in {SeparateMorphWordResult(loop)} :
        /\ mor_tier' = r[2]
        /\ IF pc = "separate_actual"
             THEN /\ actual_utt' = r[1]
                  /\ loop' = EnterLoop(target_utt, r[2])
                  /\ pc' = "single_target"
                  /\ UNCHANGED <<target_utt, seg_tier, gloss_tier, pos_tier>>
             ELSE /\ target_utt' = r[1]
                  /\ seg_tier' = r[2]
                  /\ gloss_tier' = r[2]
                  /\ pos_tier' = r[2]
                  /\ loop' = NoLoop
                  /\ pc' = "cleaned"
                  /\ UNCHANGED actual_utt
  /\ UNCHANGED session
  /\ UNCHANGED <<corpus, main_morpheme, words, morphemes, wlen, wsegs,
                 wglosses, wposes, utterance_dict>>
  /\ UNCHANGED ToolboxVars
  /\ UNCHANGED ReaderVars

\* the cleaner unifies the untranscribed material of the utterance of a
\* record (TurkishCleaner.py:128-137)
UnifyUntranscribed ==
  /\ corpus = Turkish
  /\ pc = "start"
  /\ \E raw \in TokenStrings(RawTokens, MaxRawTokens) :
        /\ record' = [utterance |-> raw]
        /\ actual_utt' = unify_untranscribed(raw)
  /\ pc' = "unified"
  /\ UNCHANGED session
  /\ UNCHANGED <<corpus, main_morpheme, outcome, utterance, tiers,
                 target_utt, seg_tier, gloss_tier, pos_tier, wlen, wsegs,
                 wglosses, wposes, utterance_dict, words, morphemes>>
  /\ UNCHANGED CleanerVars
  /\ UNCHANGED ReaderVars

\* the consumer of the records of a session file asks its generator for the
\* first record (CHATReader.py:265-287, 295-297)
IterRecordsFirst ==
  /\ corpus = Sesotho
  /\ \E path \in SessionPaths :
        /\ iterations[path].state = "created"
        /\ uid' = PyInt(iterations[path].counter)
        /\ \E it \in StartIterRecords(iterations[path]) :
              iterations' = [iterations EXCEPT ![path] = it]
  /\ UNCHANGED session
  /\ UNCHANGED <<corpus, pc, main_morpheme, words, morphemes, sentence_type,
                 toolbox_file>>
  /\ UNCHANGED CHATVars
  /\ UNCHANGED ToolboxVars
  /\ UNCHANGED CleanerVars

\* the consumer of the records of a session file asks its generator for the
\* next record (CHATReader.py:288-299)
IterRecordsNext ==
  /\ corpus = Sesotho
  /\ \E path \in SessionPaths :
        /\ iterations[path].state = "yielded"
        /\ uid' = ResumedUid(iterations[path])
        /\ iterations' = [iterations EXCEPT
                             ![path] = ResumeIterRecords(iterations[path])]
  /\ UNCHANGED session
  /\ UNCHANGED <<corpus, pc, main_morpheme, words, morphemes, sentence_type,
                 toolbox_file>>
  /\ UNCHANGED CHATVars
  /\ UNCHANGED ToolboxVars
  /\ UNCHANGED CleanerVars

\* the parser takes the sentence type and the actual and the target form of
\* the main line of the record from the reader (CHATParser.py:85-91);
\* nothing is left of the record when get_sentence_type raises
ReadMainLine ==
  /\ corpus = English
  /\ pc = "start"
  /\ \E raw \in MainLines : \E st \in {CHATReader_get_sentence_type(raw)} :
        /\ record' = [utterance |-> raw]
        /\ IF st \in {Raise("AttributeError"), Raise("KeyError")}
             THEN /\ pc' = "raised"
                  /\ UNCHANGED <<sentence_type, actual_utt, target_utt>>
             ELSE /\ pc' = "read"
                  /\ sentence_type' = st
                  /\ actual_utt' = get_replacement_actual(raw)
                  /\ target_utt' = get_replacement_target(raw)
  /\ UNCHANGED session
  /\ UNCHANGED <<corpus, main_morpheme, outcome, utterance, tiers, seg_tier,
                 gloss_tier, pos_tier, wlen, wsegs, wglosses, wposes,
                 utterance_dict, words, morphemes, uid, iterations,
                 toolbox_file>>
  /\ UNCHANGED CleanerVars

\* a function wrapped by db_apply is called with the config of the corpus
\* and the engine (postprocessor.py:559-584)
UpdateSession ==
  /\ corpus = Yucatec
  /\ pc = "start"
  /\ \E func_result \in CallResults, commit_result \in CallResults :
        session' = update_session(func_result, commit_result)
  /\ pc' = "applied"
  /\ UNCHANGED <<corpus, main_morpheme, words, morphemes>>
  /\ UNCHANGED CHATVars
  /\ UNCHANGED ToolboxVars
  /\ UNCHANGED CleanerVars
  /\ UNCHANGED ReaderVars

Next ==
  \/ UpdateSession
  \/ ReadMainLine
  \/ ToolboxFileFirst
  \/ ToolboxFileNext
  \/ LoadNextRecord
  \/ YieldUtterance
  \/ RaiseInUtterance
  \/ NextRecord
  \/ MakeRec
  \/ Resume
  \/ EndOfSession
  \/ LoadNextTurkishRecord
  \/ CrossClean
  \/ SingleMorphWordIteration
  \/ SingleMorphWordReturn
  \/ SeparateMorphWordIteration
  \/ SeparateMorphWordReturn
  \/ UnifyUntranscribed
  \/ IterRecordsFirst
  \/ IterRecordsNext

Spec == Init /\ [][Next]_vars

(* ---- the properties ---- *)

\* an utterance has been yielded by CHATParser.next_utterance
CHATYielded == corpus \in CHATCorpora /\ pc = "yielded"

\* make_rec has returned an utterance whose text was there
ToolboxReturned ==
  /\ corpus \in ToolboxCorpora
  /\ pc = "yielded"
  /\ outcome = "returned"
  /\ utterance["utterance"] \notin {Absent, None}

\* the number of words of a CHAT tier and of morphemes of a CHAT word, read
\* off the separators
CountOf(s, sep) == Cardinality({i \in 1..Len(s) : s[i] = sep}) + 1
WordCount(tier) == CountOf(tier, " ")
MorphemeCount(word) == CountOf(word, "~")

\* the token of morpheme j of word i of a CHAT tier, '' where there is none
TokenAt(tier, i, j) ==
  IF i <= WordCount(tier) /\ j <= MorphemeCount(SplitOn(tier, " ")[i])
    THEN SplitOn(SplitOn(tier, " ")[i], "~")[j]
    ELSE EmptyStr

\* a null field stands for the empty string
Shown(field) == IF field = None THEN EmptyStr ELSE field

\* the three morphology tiers of the CHAT record: the tier as loaded, its
\* words after the word-level check, and its field in a morpheme record
CHATTiers ==
  {[tier |-> seg_tier, checked |-> wsegs, field |-> "morpheme"],
   [tier |-> gloss_tier, checked |-> wglosses, field |-> "gloss_raw"],
   [tier |-> pos_tier, checked |-> wposes, field |-> "pos_raw"]}

\* C1: every yielded utterance (here: of a record that has the utterance and
\* all three morphology tiers) has as many word records as the reference
\* morphology tier has words (wlen), which is also the number of morpheme
\* groups
C1_WordsMatchReference ==
  /\ CHATYielded
  /\ EmptyStr \notin {actual_utt, target_utt, seg_tier, gloss_tier, pos_tier}
  => Len(words) = wlen /\ Len(morphemes) = wlen

\* C2: after the word-level check each of the segment, gloss and POS word
\* lists has exactly wlen entries: a tier of wlen words is kept unchanged,
\* any other tier is wlen empty strings
C2_WordLevelReplacement ==
  CHATYielded =>
    \A t \in CHATTiers :
      /\ Len(t.checked) = wlen
      /\ IF WordCount(t.tier) = wlen
           THEN JoinWith(t.checked, " ") = t.tier
           ELSE \A i \in 1..wlen : t.checked[i] = EmptyStr

C2_Witness ==
  /\ CHATYielded
  /\ wlen = 2
  /\ WordCount(pos_tier) = 3
  /\ wposes = <<EmptyStr, EmptyStr>>
  /\ wglosses = << <<"g">>, <<"h">> >>

\* C3: every morpheme word gets mlen morpheme records, mlen being the
\* morpheme count of the reference tier for that word; a tier whose
\* morpheme count for the word is mlen keeps its morphemes, any other tier
\* gives only null fields
C3_MorphemeLevelReplacement ==
  CHATYielded =>
    /\ Len(morphemes) = wlen
    /\ \A i \in 1..Len(morphemes) :
         LET mlen == RefLen(main_morpheme, MorphemeCount(wsegs[i]),
                            MorphemeCount(wglosses[i]),
                            MorphemeCount(wposes[i]))
         IN /\ Len(morphemes[i]) = mlen
            /\ \A t \in CHATTiers :
                 IF MorphemeCount(t.checked[i]) = mlen
                   THEN JoinWith([j \in 1..mlen |->
                                    Shown(morphemes[i][j][t.field])], "~")
                        = t.checked[i]
                   ELSE \A j \in 1..mlen : morphemes[i][j][t.field] = None

C3_Witness ==
  /\ CHATYielded
  /\ main_morpheme = "segment"
  /\ wsegs = << <<"s", "~", "t">> >>
  /\ wposes = << <<"p">> >>
  /\ Len(morphemes[1]) = 2
  /\ morphemes[1][2].morpheme = <<"t">>
  /\ morphemes[1][1].pos_raw = None

\* an empty tier has no word
WordCountOrZero(tier) == IF tier = EmptyStr THEN 0 ELSE WordCount(tier)

\* C4: wlen is the word count of the tier named by get_main_morpheme() when
\* that tier is not empty, else of the other one of segment and gloss, and
\* of the POS tier only when both are empty
C4_ReferenceFallback ==
  CHATYielded =>
    LET first  == IF main_morpheme = "segment" THEN seg_tier ELSE gloss_tier
        second == IF main_morpheme = "segment" THEN gloss_tier ELSE seg_tier
    IN wlen = IF first # EmptyStr THEN WordCountOrZero(first)
              ELSE IF second # EmptyStr THEN WordCountOrZero(second)
              ELSE WordCountOrZero(pos_tier)

\* null-fill in CHATParser.next_utterance: the reference word count is wlen
C5_NullFillCHAT ==
  \A t \in CHATTiers :
    t.tier # EmptyStr /\ WordCount(t.tier) < wlen =>
      /\ Len(morphemes) = wlen
      /\ \A i \in 1..Len(morphemes) : \A j \in 1..Len(morphemes[i]) :
           Shown(morphemes[i][j][t.field]) \in {EmptyStr, TokenAt(t.tier, i, j)}
      /\ \A j \in 1..Len(morphemes[wlen]) :
           morphemes[wlen][j][t.field] = None
      /\ \A u \in CHATTiers :
           WordCount(u.tier) = wlen =>
             \A i \in 1..wlen :
               MorphemeCount(u.checked[i]) = Len(morphemes[i]) =>
                 \A j \in 1..Len(morphemes[i]) :
                   Shown(morphemes[i][j][u.field]) = TokenAt(u.tier, i, j)

\* the tokenized tiers of the Toolbox record next to their fields
ToolboxTiers ==
  {[tier |-> tiers.morphemes, field |-> "morpheme"],
   [tier |-> tiers.glosses, field |-> "gloss_raw"],
   [tier |-> tiers.poses, field |-> "pos_raw"],
   [tier |-> tiers.langs, field |-> "morpheme_language"]}

\* two tokenized tiers have the same number of words and, word by word, the
\* same number of morphemes
Widths(t) == [i \in 1..Len(t) |-> Len(t[i])]
SameShape(t, u) == Widths(t) = Widths(u)

\* null-fill in ToolboxFile.get_morphemes: the reference tier is the tier
\* the alignment takes its word count from, the glosses
C5_NullFillToolbox ==
  \A t \in ToolboxTiers :
    LET n == Len(tiers.glosses)
    IN Len(t.tier) < n =>
         /\ Len(morphemes) = n
         /\ \A i \in 1..n : \A j \in 1..Len(morphemes[i]) :
              \/ morphemes[i][j][t.field] = None
              \/ /\ i <= Len(t.tier)
                 /\ j <= Len(t.tier[i])
                 /\ morphemes[i][j][t.field] = t.tier[i][j]
         /\ \A j \in 1..Len(morphemes[n]) : morphemes[n][j][t.field] = None
         /\ \A u \in ToolboxTiers :
              SameShape(u.tier, tiers.glosses) =>
                \A i \in 1..n : \A j \in 1..Len(u.tier[i]) :
                  morphemes[i][j][u.field] = u.tier[i][j]

\* C5: a tier with fewer words than the reference tier leaves one morpheme
\* group per reference word; none of its values is at an index other than
\* its own, the last word has only nulls for it, and the other tiers keep
\* their values at their word and morpheme indices
C5_NullFillNotShift ==
  /\ CHATYielded => C5_NullFillCHAT
  /\ ToolboxReturned => C5_NullFillToolbox

C5_Witness ==
  /\ CHATYielded
  /\ wlen = 3
  /\ seg_tier = <<"s", " ", "t", " ", "u">>
  /\ pos_tier = <<"p", " ", "q">>
  /\ Len(morphemes) = 3
  /\ morphemes[3][1].morpheme = <<"u">>
  /\ morphemes[3][1].pos_raw = None

\* C6: whenever a tier that is there mismatches the reference tier in word
\* or morpheme count, the utterance that is returned has a warning
C6_MismatchWarning ==
  /\ CHATYielded
     /\ (\E t \in CHATTiers : t.tier # EmptyStr /\ WordCount(t.tier) # wlen)
       => utterance_dict.warning # None
  /\ ToolboxReturned
     /\ (\E t \in ToolboxTiers :
           t.tier # <<>> /\ ~SameShape(t.tier, tiers.glosses))
       => utterance["warning"] \notin {Absent, None}

\* C7: struct_eqv of two tokenized tiers is true exactly when they have the
\* same number of words and the same number of morphemes at every word
C7_StructEqv ==
  ToolboxReturned =>
    \A t \in ToolboxTiers, u \in ToolboxTiers :
      struct_eqv(t.tier, u.tier)
        <=> /\ Len(t.tier) = Len(u.tier)
            /\ \A i \in 1..Len(t.tier) : Len(t.tier[i]) = Len(u.tier[i])

C7_Witness ==
  /\ ToolboxReturned
  /\ corpus = Chintang
  /\ Len(tiers.glosses) = 2
  /\ Len(tiers.poses) = 1
  /\ Len(tiers.poses[1]) = Len(tiers.glosses[1])
  /\ ~struct_eqv(tiers.poses, tiers.glosses)
  /\ morphemes[1][1].pos_raw = None

\* C8: get_morphemes returns one morpheme group per word of the reference
\* tier: the segment tier if the record has one, else the gloss tier, else
\* the POS tier
C8_ReferenceTier ==
  ToolboxReturned =>
    Len(morphemes) =
      IF utterance["morpheme"] # Absent THEN Len(tiers.morphemes)
      ELSE IF utterance["gloss_raw"] # Absent THEN Len(tiers.glosses)
      ELSE Len(tiers.poses)

\* C9: the morpheme at word i and position j has, for each of the four
\* tiers, the tier's token at (i, j) when the tier has the shape of the
\* reference tier, and null otherwise
C9_PositionalAlignment ==
  ToolboxReturned =>
    /\ Len(morphemes) = Len(tiers.glosses)
    /\ \A i \in 1..Len(morphemes) :
         /\ Len(morphemes[i]) = Len(tiers.glosses[i])
         /\ \A j \in 1..Len(morphemes[i]) : \A t \in ToolboxTiers :
              morphemes[i][j][t.field] =
                IF SameShape(t.tier, tiers.glosses) THEN t.tier[i][j]
                ELSE None

C9_Witness ==
  /\ ToolboxReturned
  /\ corpus = Chintang
  /\ Len(tiers.glosses) = 2
  /\ Len(tiers.morphemes) = 2
  /\ Len(tiers.poses) = 1
  /\ morphemes[2][1].morpheme = tiers.morphemes[2][1]
  /\ morphemes[2][1].gloss_raw = tiers.glosses[2][1]
  /\ morphemes[1][1].pos_raw = None

\* C10: make_rec on a record without utterance text returns an utterance
\* with an empty word list and an empty morpheme list, and does not raise
C10_NoUtteranceText ==
  /\ corpus \in ToolboxCorpora
  /\ pc \in {"yielded", "done"}
  /\ outcome \notin {"none", "filtered"}
  /\ record["utterance_raw"] \in {Absent, None}
  => /\ outcome = "returned"
     /\ words = <<>>
     /\ morphemes = <<>>

\* the pass of CHATParser.next_utterance over a record has ended
CHATPassEnded == corpus \in CHATReaders /\ pc \in {"yielded", "raised"}

\* C11: a record with an orthographic text whose segment, gloss and POS
\* tiers are all empty yields its words with no morphemes (every morpheme
\* sequence is empty) and does not raise, with every reader
C11_EmptyMorphologyTiers ==
  /\ CHATPassEnded
  /\ actual_utt # EmptyStr
  /\ target_utt # EmptyStr
  /\ seg_tier = EmptyStr
  /\ gloss_tier = EmptyStr
  /\ pos_tier = EmptyStr
  => /\ pc = "yielded"
     /\ Len(words) > 0
     /\ \A i \in 1..Len(morphemes) : morphemes[i] = <<>>

\* the scans of the Turkish cleaner
SingleScans == {"single_actual", "single_target"}
SeparateScans == {"separate_actual", "separate_target"}

\* a pass of the loop of one of the scans is made in this step
IterationStep(scans) ==
  corpus = Turkish /\ pc \in scans /\ pc' = pc /\ loop' # loop

\* one of the scans returns in this step
ReturnStep(scans) == corpus = Turkish /\ pc \in scans /\ pc' # pc

\* xs with the words at the positions n and n+1 (from 1) joined by '_'
JoinedAt(xs, n) ==
  SubSeq(xs, 1, n - 1) \o <<xs[n] \o <<"_">> \o xs[n + 1]>>
    \o SubSeq(xs, n + 2, Len(xs))

\* the scan stands at a morphological word with a separator whose
\* orthographic word has none, and the first two characters of this and of
\* the next orthographic word occur in the morphological word
MissingJoin(st) ==
  /\ st.i + 2 <= Len(st.wwords)
  /\ st.i + 1 <= Len(st.mwords)
  /\ \E k \in 1..Len(st.mwords[st.i + 1]) :
        st.mwords[st.i + 1][k] \in {"_", "+"}
  /\ \A k \in 1..Len(st.wwords[st.i + 1]) :
        st.wwords[st.i + 1][k] \notin {"_", "+"}
  /\ Contains(st.mwords[st.i + 1],
              SubSeq(st.wwords[st.i + 1], 1,
                     Min(2, Len(st.wwords[st.i + 1]))))
  /\ Contains(st.mwords[st.i + 1],
              SubSeq(st.wwords[st.i + 2], 1,
                     Min(2, Len(st.wwords[st.i + 2]))))

\* C12: when single_morph_word stands at a morphological word with '_' or
\* '+' whose orthographic word has neither, and the first two characters of
\* this and of the next orthographic word occur in the morphological word,
\* the two orthographic words are joined by '_'; the morphology tier is
\* returned unchanged; 'a b' with 'P|a_b' gives 'a_b'
C12_SingleMorphWord ==
  [][/\ IterationStep(SingleScans) /\ MissingJoin(loop)
        => /\ loop'.wwords = JoinedAt(loop.wwords, loop.i + 1)
           /\ loop'.mwords = loop.mwords
     /\ ReturnStep(SingleScans)
        => /\ mor_tier' = mor_tier
           /\ mor_tier' = JoinWith(loop.mwords, " ")
     /\ /\ ReturnStep({"single_actual"})
        /\ record.actual_utt = <<"a", " ", "b">>
        /\ record.seg_tier = <<"P", "|", "a", "_", "b">>
        => actual_utt' = <<"a", "_", "b">>]_vars

C12_Witness ==
  /\ corpus = Turkish
  /\ pc = "separate_actual"
  /\ record.actual_utt = <<"a", " ", "b">>
  /\ record.seg_tier = <<"P", "|", "a", "_", "b">>
  /\ actual_utt = <<"a", "_", "b">>
  /\ mor_tier = record.seg_tier

\* the rest of a morphological word behind its first POS tag, when the word
\* has the form whole|pos|...: its first '|' stands behind a tag and the rest
\* holds a '|' behind a tag of its own; otherwise NoMatch
BehindWholeTag(w) ==
  LET bars == {p \in 1..Len(w) : w[p] = "|"}
      first == CHOOSE p \in bars : \A q \in bars : p <= q
  IN IF bars # {} /\ first >= 2 /\ \E q \in bars : q >= first + 2
       THEN SubSeq(w, first + 1, Len(w))
       ELSE NoMatch

\* xs with the word at position n (from 1) replaced by its parts at '_', '+'
SplitAt(xs, n, w) ==
  SubSeq(xs, 1, n - 1) \o SplitSeparators(w) \o SubSeq(xs, n + 1, Len(xs))

\* C13: separate_morph_word replaces a morphological word of the form
\* whole|pos1|stem1_pos2|stem2 in place and in order by the words got by
\* dropping the tag of the whole complex and splitting the rest at '_' or
\* '+'; an orthographic word at the same index with '_' or '+' is split at
\* the same separators; the other words keep their order
C13_SeparateMorphWord ==
  [][/\ IterationStep(SeparateScans)
     /\ BehindWholeTag(loop.mwords[loop.i + 1]) # NoMatch
     => /\ loop'.mwords =
             SplitAt(loop.mwords, loop.i + 1,
                     BehindWholeTag(loop.mwords[loop.i + 1]))
        /\ loop'.wwords =
             IF \E k \in 1..Len(loop.wwords[loop.i + 1]) :
                   loop.wwords[loop.i + 1][k] \in {"_", "+"}
               THEN SplitAt(loop.wwords, loop.i + 1, loop.wwords[loop.i + 1])
               ELSE loop.wwords]_vars

C13_Witness ==
  /\ corpus = Turkish
  /\ pc = "single_target"
  /\ record.actual_utt = <<"a", "_", "b">>
  /\ record.seg_tier = <<"W", "|", "P", "|", "a", "_", "Q", "|", "b">>
  /\ actual_utt = <<"a", " ", "b">>
  /\ mor_tier = <<"P", "|", "a", " ", "Q", "|", "b">>

NoComplex(tier) ==
  \A k \in 1..Len(tier) :
    /\ tier[k] \notin {"_", "+"}
    /\ tier[k] = "|" =>
         \A h \in (k + 1)..Len(tier) :
           tier[h] = "|" => \E b \in (k + 1)..(h - 1) : tier[b] = " "

\* C15: when no morphological word has '_' or '+' or two POS tags,
\* cross_clean returns the actual utterance, the target utterance and the
\* morphology tier as given; and it raises for no input: no scan reads a
\* word that is not there
C15_CrossCleanFrame ==
  /\ corpus = Turkish /\ pc = "cleaned" /\ NoComplex(record.seg_tier)
     => /\ actual_utt = record.actual_utt
        /\ target_utt = record.target_utt
        /\ seg_tier = record.seg_tier
        /\ gloss_tier = record.seg_tier
        /\ pos_tier = record.seg_tier
  /\ corpus = Turkish /\ pc \in SingleScans \cup SeparateScans
     => /\ LoopCondition(loop)
           => loop.i < Len(loop.wwords) /\ loop.i < Len(loop.mwords)
        /\ loop.i + 1 < loop.wwords_count => loop.i + 1 < Len(loop.wwords)

C15_Witness ==
  /\ corpus = Turkish
  /\ pc = "cleaned"
  /\ record.actual_utt = <<"a", " ", "b">>
  /\ record.target_utt = EmptyStr
  /\ record.seg_tier = <<"P", "|", "a">>
  /\ actual_utt = <<"a", " ", "b">>
  /\ target_utt = EmptyStr
  /\ seg_tier = <<"P", "|", "a">>

\* what is left to scan: the morphological words from the index on and the
\* separators at which they can still be split (a word is not longer than
\* the tier it is cut out of)
LeftToScan(st) ==
  Len(st.mwords) - st.i
    + Cardinality({<<n, k>> \in (1..Len(st.mwords)) \X (1..Len(mor_tier)) :
                     k <= Len(st.mwords[n])
                     /\ st.mwords[n][k] \in {"_", "+"}})

\* C16: the loops of single_morph_word and separate_morph_word end for every
\* input: a pass moves the index on by one, reads and changes only words
\* below the length of both lists of words, which the counts of the loop
\* condition equal, and comes closer to the end although separate_morph_word
\* makes both lists longer; once the index is at the length of one of the
\* lists, the lists are returned as they are
C16_ScansTerminate ==
  [][/\ IterationStep(SingleScans \cup SeparateScans)
        => /\ loop'.i = loop.i + 1
           /\ loop.i < Len(loop.wwords) /\ loop.i < Len(loop.mwords)
           /\ SubSeq(loop'.wwords, 1, loop.i) = SubSeq(loop.wwords, 1, loop.i)
           /\ SubSeq(loop'.mwords, 1, loop.i) = SubSeq(loop.mwords, 1, loop.i)
           /\ loop'.wwords_count = Len(loop'.wwords)
           /\ loop'.mwords_count = Len(loop'.mwords)
           /\ LeftToScan(loop') < LeftToScan(loop)
           /\ LeftToScan(loop') >= 0
     /\ /\ corpus = Turkish
        /\ pc \in SingleScans \cup SeparateScans
        /\ loop.i >= Len(loop.wwords) \/ loop.i >= Len(loop.mwords)
        => /\ pc' # pc
           /\ pc \in {"single_actual", "separate_actual"}
                => actual_utt' = JoinWith(loop.wwords, " ")
           /\ pc \in {"single_target", "separate_target"}
                => target_utt' = JoinWith(loop.wwords, " ")
           /\ pc \in SeparateScans
                => mor_tier' = JoinWith(loop.mwords, " ")]_vars

C16_Witness ==
  /\ corpus = Turkish
  /\ pc = "separate_actual"
  /\ record.seg_tier = <<"W", "|", "P", "|", "a", "_", "Q", "|", "b">>
  /\ record.actual_utt = <<"a", "_", "b">>
  /\ loop.i = 2
  /\ loop.mwords = <<(<<"P", "|", "a">>), <<"Q", "|", "b">> >>
  /\ loop.wwords = <<(<<"a">>), <<"b">> >>
  /\ ~LoopCondition(loop)

\* the other session files have not been iterated
OnlyIterated(path) ==
  \A other \in SessionPaths \ {path} : iterations[other].state = "created"

\* C17: while the records of a session file are iterated, the id between
\* the yield of the k-th record (from 0) and the request for the next one is
\* 'u' + k; before the iteration starts and after it is exhausted get_uid
\* returns None
C17_UidFollowsRecords ==
  corpus = Sesotho =>
    \A path \in SessionPaths :
      OnlyIterated(path) =>
        /\ iterations[path].state \in {"created", "exhausted"}
             => get_uid(uid) = None
        /\ iterations[path].state = "yielded"
             => get_uid(uid) = <<"u">> \o Str(iterations[path].rec)

\* C18: for every interleaving of the iterations of two session files, the
\* id read while a record of a file is processed is the index of that record
\* in its own file
C18_InterleavedIterations ==
  corpus = Sesotho =>
    \A path \in SessionPaths :
      iterations[path].state = "yielded"
        => get_uid(uid) = <<"u">> \o Str(iterations[path].rec)

\* some tier of the record has a content that starts with '@'
HasAtContent(rec) ==
  \E k \in DOMAIN rec :
    rec[k] \notin {Absent, None} /\ Len(rec[k]) > 0 /\ rec[k][1] = "@"

\* C19: an Indonesian record with the speaker label '@PAR' gives no
\* utterance, words or morphemes: make_rec returns the all-None triple before
\* a word or morpheme is built, and IndonesianReader.is_record is False for
\* it; no other speaker label is filtered by this rule
C19_ParticipantRecord ==
  corpus = Indonesian /\ pc = "yielded" =>
    /\ record["speaker_label"] = <<"@", "P", "A", "R">>
         => /\ outcome = "filtered"
            /\ utterance = NoUtterance
            /\ words = <<>>
            /\ morphemes = <<>>
            /\ tiers = NoTiers
            /\ \A b \in BOOLEAN : ~is_record(record, b)
    /\ record["speaker_label"] # <<"@", "P", "A", "R">>
         => /\ is_record(record, TRUE)
            /\ outcome = "filtered" => HasAtContent(record)

C19_Witness ==
  /\ corpus = Indonesian
  /\ pc = "yielded"
  /\ record["speaker_label"] = <<"@", "P", "A", "R">>
  /\ record["utterance_raw"] \notin {Absent, None}
  /\ record["morpheme"] \notin {Absent, None}
  /\ outcome = "filtered"
  /\ ~is_record(record, TRUE)

\* a token that stands for untranscribed material: xxx, www or yyy and more
IsUntranscribed(token) ==
  \/ token \in {<<"x", "x", "x">>, <<"w", "w", "w">>}
  \/ Len(token) >= 3 /\ \A k \in 1..Len(token) : token[k] = "y"

\* C20: unify_untranscribed replaces every token between blanks that is
\* 'xxx', 'www' or three or more 'y' by '???', also when several of them are
\* adjacent, leaves every other token as it is and keeps the number of
\* tokens
C20_UnifyUntranscribed ==
  corpus = Turkish /\ pc = "unified" =>
    /\ Len(SplitOn(actual_utt, " ")) = Len(SplitOn(record.utterance, " "))
    /\ \A k \in 1..Len(SplitOn(record.utterance, " ")) :
         SplitOn(actual_utt, " ")[k] =
           IF IsUntranscribed(SplitOn(record.utterance, " ")[k])
             THEN <<"?", "?", "?">>
             ELSE SplitOn(record.utterance, " ")[k]

\* the whitespace runs of a tier, by the position of their first blank, that
\* have no hyphen in front of them and no hyphen behind them
RunStarts(s) == {i \in 1..Len(s) : s[i] = " " /\ (i = 1 \/ s[i-1] # " ")}
RunLast(s, i) ==
  CHOOSE e \in i..Len(s) :
    (\A j \in i..e : s[j] = " ") /\ (e = Len(s) \/ s[e+1] # " ")
HyphenFree(s) ==
  {i \in RunStarts(s) :
     /\ (i = 1 \/ s[i-1] # "-")
     /\ (RunLast(s, i) = Len(s) \/ s[RunLast(s, i) + 1] # "-")}

\* the morphemes of all the words of a tokenized tier, one after the other
Flatten(t) ==
  LET f[i \in 0..Len(t)] == IF i = 0 THEN <<>> ELSE f[i-1] \o t[i]
  IN f[Len(t)]

\* make_rec has returned the utterance of a Chintang record with a gloss tier
ChintangGlossed ==
  /\ ToolboxReturned
  /\ corpus = Chintang
  /\ record.gloss_raw \notin {Absent, None}
  /\ ~tiers.raised

\* C21: the gloss tier of a Chintang record has one word more than it has
\* whitespace runs without a hyphen on either side; its morphemes are the
\* blank-separated tokens of the tier without the floating clitic markers;
\* 'hap -i -nig hap -i -nig' makes two words of three morphemes and
\* 'g - h' one word of the two morphemes g and h
C21_WordBoundary ==
  ChintangGlossed =>
    /\ Len(tiers.glosses) = Cardinality(HyphenFree(record.gloss_raw)) + 1
    /\ Flatten(tiers.glosses)
         = SelectSeq(SplitWS(record.gloss_raw), LAMBDA tok : tok # <<"-">>)
    /\ record.gloss_raw = HapINig => Widths(tiers.glosses) = <<3, 3>>
    /\ record.gloss_raw = HapINig /\ record.morpheme = HapINig
         => /\ Widths(morphemes) = <<3, 3>>
            /\ morphemes[2][3].morpheme = <<"-", "n", "i", "g">>
    /\ record.gloss_raw = <<"g", " ", "-", " ", "h">>
         => tiers.glosses = << << <<"g">>, <<"h">> >> >>

C21_Witness ==
  /\ ChintangGlossed
  /\ record.gloss_raw = <<"g", " ", "-", " ", "h", " ", "i">>
  /\ tiers.glosses = << << <<"g">>, <<"h">> >>, << <<"i">> >> >>

\* C22: the word tokenizer gives the maximal non-blank substrings of the
\* utterance and of the segment, gloss and POS tier, in order: no word of
\* the utterance is the empty string, and empty tiers give no morpheme word
C22_WordTokenizer ==
  CHATPassEnded =>
    /\ get_utterance_words(actual_utt) = SplitWS(actual_utt)
    /\ get_utterance_words(target_utt) = SplitWS(target_utt)
    /\ get_seg_words(seg_tier) = SplitWS(seg_tier)
    /\ get_gloss_words(gloss_tier) = SplitWS(gloss_tier)
    /\ get_pos_words(pos_tier) = SplitWS(pos_tier)
    /\ \A i \in 1..Len(words) : words[i].word_actual # EmptyStr
    /\ (pc = "yielded" /\ seg_tier = EmptyStr /\ gloss_tier = EmptyStr
          /\ pos_tier = EmptyStr) => wlen = 0

\* the reader has given the sentence type and the two forms of a main line
MainLineRead == corpus = English /\ pc = "read"

\* C23: the target form of a main line has as many words as its actual
\* form, and 'a [: b c] .' has the target form 'b_c .', the replacing words
\* joined into one token
C23_ReplacementTarget ==
  MainLineRead =>
    /\ Len(get_utterance_words(target_utt))
         = Len(get_utterance_words(actual_utt))
    /\ record.utterance = <<"a", " ", "[", ":", " ", "b", " ", "c", "]", " ", ".">>
         => target_utt = <<"b", "_", "c", " ", ".">>

\* the sentence types of the integrity test (test_integrity.py:105-111)
SentenceTypes ==
  {<<"default">>, <<"question">>, <<"exclamation">>, <<"imperative">>,
   <<"trail off">>, <<"interruption">>, <<"trail off question">>,
   <<"self interruption">>, <<"self interruption question">>,
   <<"quotation next line">>, <<"quotation precedes">>,
   <<"interruption question">>}

\* make_rec has returned an utterance
ToolboxUtterance ==
  corpus \in ToolboxCorpora /\ pc = "yielded" /\ outcome = "returned"

\* C24: the sentence type CHATReader gives to a main line and the sentence
\* type make_rec gives to a Russian, Indonesian or Chintang utterance is
\* null or one of the sentence types of the integrity test, and it is
\* 'default' when the terminator is a plain '.'
C24_SentenceTypes ==
  /\ MainLineRead =>
       /\ sentence_type \in SentenceTypes \cup {None}
       /\ TerminatorMatch(record.utterance) = <<".">>
            => sentence_type = <<"default">>
  /\ ToolboxUtterance =>
       /\ utterance["sentence_type"] \in SentenceTypes \cup {None}
       /\ (corpus \in {Russian, Indonesian}
             /\ record["utterance_raw"] \notin {Absent, None}
             /\ LastChar(record["utterance_raw"]) = ".")
            => utterance["sentence_type"] = <<"default">>

\* the distinct causes of a warning in the order they are detected: each
\* configured tier of the record without content, once, then the
\* transcription warning of the utterance
DistinctCauses(corpus_name, rec) ==
  EmptyTiers(rec, RecordKeys)
  \o (IF rec["utterance_raw"] \notin {Absent, None}
         /\ get_warnings(corpus_name, rec["utterance_raw"]) # None
        THEN <<get_warnings(corpus_name, rec["utterance_raw"])>>
        ELSE <<>>)

\* C25: the warning of the utterance returned by make_rec names every
\* distinct cause exactly once, in detection order (the empty tiers in the
\* order of the record, then the transcription warning), and the utterance
\* carries no warning when no cause was detected
C25_UtteranceWarning ==
  ToolboxUtterance =>
    utterance["warning"] =
      IF Len(DistinctCauses(corpus, record)) > 0
        THEN <<"Empty value in the input for: ">>
             \o JoinWith(DistinctCauses(corpus, record), ", ")
        ELSE Absent

\* make_rec has run on a record of a file whose corpus is not registered
UnregisteredRecordMade ==
  corpus = Other /\ pc \in {"yielded", "done"} /\ outcome # "none"

\* C26: for a corpus that is none of Russian, Indonesian and Chintang,
\* make_rec raises on every record: no record gives an utterance
C26_UnregisteredCorpus ==
  UnregisteredRecordMade => outcome = "raised"

\* the number of records an iter_records generator has yielded
YieldedCount(it) ==
  IF it.state \in {"yielded", "exhausted"} /\ it.records > 0
    THEN it.rec + 1 ELSE 0

\* the generator is at its end
Ended(it) == it.state \in {"exhausted", "raised"}

\* C27: record iteration yields the records of the session in file order,
\* none skipped and none twice, and an iteration that is at its end has
\* yielded one record for every record marker of the file, the last one
\* included, with iter_records and with ToolboxFile.__iter__
C27_OneRecordPerMarker ==
  /\ \A path \in SessionPaths :
       /\ YieldedCount(iterations[path]) <= iterations[path].records
       /\ Ended(iterations[path])
            => YieldedCount(iterations[path]) = iterations[path].records
  /\ toolbox_file.yielded = [i \in 1..Len(toolbox_file.yielded) |-> i]
  /\ Len(toolbox_file.yielded) <= Len(toolbox_file.records)
  /\ Ended(toolbox_file)
       => Len(toolbox_file.yielded) = Len(toolbox_file.records)

\* the words get_words makes of the clean utterance of the returned
\* utterance (toolbox.py:177)
WordsOfUtterance ==
  IF utterance["utterance"] = None THEN <<>>
  ELSE ToolboxFile_get_words(corpus, utterance["utterance"])

\* the content of a word record: all but the language taken from the
\* morphemes
WordContent(w) == [w EXCEPT !.word_language = Absent]

\* C28: after make_rec the word list is not shorter than the morpheme list:
\* with more morpheme groups than words the missing number of empty word
\* records is appended behind the words, which keep their content and
\* order; with at least as many words as morpheme groups no word and no
\* morpheme group is added or dropped
C28_WordsPadded ==
  ToolboxUtterance =>
    /\ Len(words) >= Len(morphemes)
    /\ Len(morphemes) = Len(AlignTiers(tiers))
    /\ Len(words) = IF Len(morphemes) > Len(WordsOfUtterance)
                      THEN Len(morphemes) ELSE Len(WordsOfUtterance)
    /\ \A i \in 1..Len(words) :
         IF i <= Len(WordsOfUtterance)
           THEN WordContent(words[i]) = WordContent(WordsOfUtterance[i])
           ELSE words[i] = EmptyWord

\* a returned utterance of one word with two morpheme groups: one empty
\* word record stands behind the word
C28_Witness ==
  /\ ToolboxUtterance
  /\ Len(WordsOfUtterance) = 1
  /\ Len(morphemes) = 2
  /\ Len(words) = 2
  /\ words[2] = EmptyWord
  /\ words[1].word = <<"w">>

\* C29: cross_clean treats the actual and the target utterance alike: given
\* equal utterances it returns equal utterances, with the same number of
\* words, next to one morphology tier for the segment, the gloss and the
\* POS tier
C29_CrossCleanAlike ==
  (corpus = Turkish /\ pc = "cleaned"
     /\ record.actual_utt = record.target_utt)
  => /\ actual_utt = target_utt
     /\ Len(SplitOn(actual_utt, " ")) = Len(SplitOn(target_utt, " "))
     /\ seg_tier = gloss_tier
     /\ gloss_tier = pos_tier

\* the number of calls of a method on the session
Calls(method) ==
  Cardinality({i \in 1..Len(session.calls) : session.calls[i] = method})

\* update_session has run
Applied == corpus = Yucatec /\ pc = "applied"

\* the session is closed exactly once, by the last call made on it
ClosedLast ==
  /\ Calls("close") = 1
  /\ session.calls[Len(session.calls)] = "close"

\* C30: a function wrapped by db_apply runs in one session: when it returns
\* the session is committed exactly once and not rolled back; when it
\* raises the session is rolled back, not committed, and the exception does
\* not reach the caller; the session is closed exactly once, after the
\* commit or the rollback
C30_SessionProtocol ==
  Applied =>
    /\ session.func = Returned
         => Calls("commit") = 1 /\ Calls("rollback") = 0
    /\ session.func # Returned
         => /\ Calls("rollback") = 1
            /\ Calls("commit") = 0
            /\ session.result = Returned
    /\ ClosedLast

\* C30 amended: commit is called exactly once when the function returns
\* and never when it raises; the session is rolled back exactly once when
\* the function or the commit raises an Exception, and then nothing reaches
\* the caller; it is not rolled back when both return, nor when one of them
\* raises an exception outside Exception such as KeyboardInterrupt, which
\* reaches the caller; the session is closed exactly once, by the last call
C30_SessionProtocolAmended ==
  Applied =>
    /\ Calls("commit") = (IF session.func = Returned THEN 1 ELSE 0)
    /\ Calls("rollback") =
         (IF Caught(session.func) \/ Caught(session.commit) THEN 1 ELSE 0)
    /\ session.result =
         (IF session.func = Returned /\ ~Caught(session.commit)
            THEN session.commit
          ELSE IF Caught(session.func) \/ Caught(session.commit)
            THEN Returned
          ELSE session.func)
    /\ ClosedLast

\* the function returned and the commit raised: the session was rolled back
\* behind the commit and closed, and the caller sees no exception
C30_Witness ==
  /\ Applied
  /\ session.func = Returned
  /\ session.commit = Raise("Exception")
  /\ session.calls = <<"commit", "rollback", "close">>
  /\ session.result = Returned

====
